---- MODULE Spec2Model ----
(***************************************************************************)
(* Neighborhood Finder API (server.js): the amenity-scoring and relevance- *)
(* filtering pipeline.  The collaborators (language model, forum search,   *)
(* places provider, reverse geocoder) are inputs chosen from small sets.   *)
(***************************************************************************)
EXTENDS Integers, Sequences, FiniteSets, TLC

VARIABLES
    pc,                    \* position of the running function / handler
    amenitiesNeeded,       \* amenity types requested, in order
    typeIndex,             \* index of the amenity type being processed
    amenities,             \* places of the current type not yet attributed
    neighborhoodScores,    \* JS object: neighborhood -> (type -> count)
    neighborhoodAmenities, \* JS object: neighborhood -> (type -> places)
    scoredNeighborhoods,   \* ranked result of the scorer
    located,               \* history: every located place with its resolver answer
    posts,                 \* input posts of the relevance filter
    filterText,            \* raw text of the model's relevance response
    filterOutcome,         \* what filterRelevantPosts did: returned value or error
    handler,               \* which version of POST /api/recommendations serves
    request,               \* the request body: city and preferences
    provider,              \* what the places provider and geocoder answer
    specificBrands,        \* JS object: amenity type -> brand names
    redditQueries,         \* search queries parsed from the model
    redditPosts,           \* posts scraped for the request
    qualitativeScores,     \* JS object: neighborhood -> score, as parsed
    concernsMap,           \* concerns per neighborhood, after the fallback
    recommendations,       \* recommendations.recommendations of the response
    mapData,               \* mapData of the response
    response,              \* the HTTP response sent, if any
    scrapeCity,            \* scrapeReddit / discoverSubreddits: the city argument
    forumSearch,           \* discoverSubreddits: what the subreddit search gave
    searchSubreddits,      \* the subreddits to search in
    scrapeQueries,         \* scrapeReddit: the queries argument
    queryIndex,            \* scrapeReddit: position of the for-of loop
    searchReplies,         \* scrapeReddit: what each post search gave, in order
    scrapedPosts,          \* scrapeReddit: const posts = []
    amenityText,           \* the amenity-extraction reply, when it is kept
    lookupNames,           \* getAllAmenityCoordinates: the specificNames argument
    lookupIndex,           \* getAllAmenityCoordinates: passes of its loop so far
    nextPageToken,         \* getAllAmenityCoordinates: let nextPageToken = null
    allPlaces,             \* getAllAmenityCoordinates: const allPlaces = []
    nearbyCalls,           \* history: each placesNearby request and its reply
    lookupResult,          \* what getAllAmenityCoordinates returned
    geocodeReply,          \* getNeighborhoodFromCoordinates: the lookup's reply
    resolved,              \* what getNeighborhoodFromCoordinates returned
    lookups,               \* history: the lookups the scorer has awaited
    filteredPosts,         \* the handlers' const filteredPosts
    filterCalls,           \* history: calls of filterRelevantPosts by the handler
    mapIndex               \* position of the for-of loop that fills mapData

vars == <<pc, amenitiesNeeded, typeIndex, amenities, neighborhoodScores,
          neighborhoodAmenities, scoredNeighborhoods, located, posts,
          filterText, filterOutcome, handler, request, provider,
          specificBrands, redditQueries, redditPosts, qualitativeScores,
          concernsMap,
          recommendations, mapData, response, scrapeCity, forumSearch,
          searchSubreddits, scrapeQueries, queryIndex, searchReplies,
          scrapedPosts, amenityText, lookupNames, lookupIndex,
          nextPageToken, allPlaces, nearbyCalls, lookupResult, geocodeReply,
          resolved, lookups, filteredPosts, filterCalls, mapIndex>>

scorerVars == <<amenitiesNeeded, typeIndex, amenities, neighborhoodScores,
                neighborhoodAmenities, scoredNeighborhoods, located>>

filterVars == <<posts, filterText, filterOutcome>>

handlerVars == <<handler, request, provider, specificBrands, redditQueries,
                 redditPosts, qualitativeScores, concernsMap, recommendations,
                 mapData, response>>

lookupVars == <<lookupNames, lookupIndex, nextPageToken, allPlaces,
                nearbyCalls, lookupResult, geocodeReply, resolved, lookups>>

scraperVars == <<scrapeCity, forumSearch, searchSubreddits, scrapeQueries,
                 queryIndex, searchReplies, scrapedPosts>>

postFilterVars == <<filteredPosts, filterCalls>>

----------------------------------------------------------------------------
(* Bounds of the model *)

\* places the provider returns over one scoring run
MaxPlaces == 3

\* the JS value null
NULL == "null"

\* amenity types the extraction may name
Types == {"gym", "park"}

\* amenity lists a request may carry (a type may be named twice)
AmenityLists == {<<"gym">>, <<"gym", "park">>, <<"park", "gym">>, <<"gym", "gym">>}

\* names that every object literal {} inherits from Object.prototype with a
\* truthy value; 'constructor' stands for them ('toString', 'valueOf' and
\* the others read as functions just the same). '__proto__', whose
\* assignment would write to Object.prototype itself, is left out
InheritedNames == {"constructor"}

\* neighborhood names the reverse geocoder may return; "7" and "12" are
\* names made of digits only (a district number, a house number segment),
\* "constructor" is a name that is also a property every object inherits
Names == {"Downtown", "Uptown", "7", "12"} \cup InheritedNames

\* answers of one resolver call: a name, the empty string, or null
ResolverAnswers == Names \cup {"", NULL}

----------------------------------------------------------------------------
(* JavaScript objects: own keys in insertion order plus their values *)

EmptyObject == [keys |-> <<>>, vals |-> <<>>]

Has(o, k) == k \in DOMAIN o.vals

Get(o, k) == o.vals[k]

Put(o, k, v) ==
    [keys |-> IF Has(o, k) THEN o.keys ELSE Append(o.keys, k),
     vals |-> (k :> v) @@ o.vals]

\* the value of a key that is a canonical array index, -1 for any other key
ArrayIndex(k) ==
    CASE k = "7" -> 7
      [] k = "12" -> 12
      [] OTHER -> -1

IsArrayIndex(k) == ArrayIndex(k) >= 0

RECURSIVE AscendingIndexKeys(_)
AscendingIndexKeys(S) ==
    IF S = {} THEN <<>>
    ELSE LET m == CHOOSE k \in S : \A j \in S : ArrayIndex(k) <= ArrayIndex(j)
         IN  <<m>> \o AscendingIndexKeys(S \ {m})

\* the order in which Object.keys / Object.entries enumerate own keys:
\* array-index keys ascending, then the other keys in insertion order
OwnPropertyKeys(o) ==
    LET idx == {o.keys[i] : i \in {j \in 1..Len(o.keys) : IsArrayIndex(o.keys[j])}}
        IsName(k) == ~IsArrayIndex(k)
    IN  AscendingIndexKeys(idx) \o SelectSeq(o.keys, IsName)

\* JS truthiness of a resolver answer
Truthy(v) == v # NULL /\ v # ""

\* how a call ends: with a value, or with an exception
Returned(v) == [kind |-> "returned", value |-> v]

Threw == [kind |-> "threw", value |-> <<>>]

----------------------------------------------------------------------------
(* JavaScript strings *)

UpperCaseLetters == "ABCDEFGHIJKLMNOPQRSTUVWXYZ"

LowerCaseLetters == "abcdefghijklmnopqrstuvwxyz"

CharAt(s, i) == SubSeq(s, i, i)

LowerChar(c) ==
    IF \E i \in 1..Len(UpperCaseLetters) : CharAt(UpperCaseLetters, i) = c
    THEN CharAt(LowerCaseLetters,
                CHOOSE i \in 1..Len(UpperCaseLetters) :
                    CharAt(UpperCaseLetters, i) = c)
    ELSE c

\* the characters of s from position i on, in lower case
RECURSIVE LowerFrom(_, _)
LowerFrom(s, i) ==
    IF i > Len(s) THEN ""
    ELSE LowerChar(CharAt(s, i)) \o LowerFrom(s, i + 1)

\* String.prototype.toLowerCase
toLowerCase(s) == LowerFrom(s, 1)

\* String.prototype.includes
includes(s, sub) ==
    \E i \in 1..(Len(s) - Len(sub) + 1) : SubSeq(s, i, i + Len(sub) - 1) = sub

\* String.prototype.split(/\s+/): a run of blanks is one separator
RECURSIVE SplitFrom(_, _, _)
SplitFrom(s, i, cur) ==
    IF i > Len(s) THEN <<cur>>
    ELSE IF CharAt(s, i) = " "
         THEN IF i > 1 /\ CharAt(s, i - 1) = " "
              THEN SplitFrom(s, i + 1, cur)
              ELSE <<cur>> \o SplitFrom(s, i + 1, "")
         ELSE SplitFrom(s, i + 1, cur \o CharAt(s, i))

splitWhitespace(s) == SplitFrom(s, 1, "")

RECURSIVE Flatten(_)
Flatten(ss) == IF ss = <<>> THEN <<>> ELSE Head(ss) \o Flatten(Tail(ss))

\* Array.prototype.slice(0, n)
slice(a, n) == SubSeq(a, 1, IF Len(a) < n THEN Len(a) ELSE n)

----------------------------------------------------------------------------
(* The places provider and the geocoder, fixed for one request *)

\* results the provider returns on one page
MaxResults == 11

\* names of the provider's places, by position in its result list
PlaceCatalogue ==
    <<"Crunch Fitness", "LA Fitness Test", "Crunch Google", "Yoga Loft">>

PlaceName(i) == PlaceCatalogue[((i - 1) % Len(PlaceCatalogue)) + 1]

\* brand-name lists the amenity extraction may attach to a type
BrandLists == {<<>>, <<"LA Fitness", "crunch">>, <<"LA">>}

\* how the reverse geocoder answers: every place in one neighborhood, the
\* places spread over the neighborhoods, or no answer at all
ResolverPatterns == {"same", "spread", "none"}

\* neighborhoods of the spread pattern, in the order places fall into them
SpreadNames ==
    <<"Downtown", "Uptown", "7", "12", "Mission", "Sunset", "Marina">>

TypeShift(amenityType) ==
    CASE amenityType = "gym" -> 0
      [] amenityType = "park" -> 1
      [] OTHER -> 2

\* geocode: whether the city geocodes; count: results per page; pages: pages
\* the provider has for a generic query (a second page only for short
\* pages); pattern: the resolver's answers
\* a provider that holds no place, or whose city does not geocode, is told
\* apart by nothing else; a page is empty, holds one place or is the longest
ResultCounts == {0, 1, MaxResults}

Providers ==
    {prov \in [geocode : BOOLEAN, count : ResultCounts,
               pages : 1..2, pattern : ResolverPatterns] :
        /\ prov.pages = 1 \/ prov.count <= 2
        /\ prov.geocode \/ prov.count = 0
        /\ prov.count = 0 => (prov.pattern = "none" /\ prov.pages = 1)}

NoProvider == [geocode |-> FALSE, count |-> 0, pages |-> 1, pattern |-> "none"]

\* response.data.results of placesNearby for one page
NearbyResults(prov, amenityType, page) ==
    [i \in 1..prov.count |->
        [name |-> PlaceName((page - 1) * prov.count + i),
         loc  |-> (page - 1) * prov.count + i]]

\* response.data.next_page_token is set while more pages exist
HasNextPageToken(prov, page) == page < prov.pages

\* places.map(place => ({name, lat, lng, type}))
MapPlaces(places, amenityType) ==
    [i \in 1..Len(places) |->
        [name |-> places[i].name, loc |-> places[i].loc, type |-> amenityType]]

\* brandLower.split(/\s+/).filter(p => p.length > 2)
BrandParts(brandName) ==
    LET Significant(part) == Len(part) > 2
    IN  SelectSeq(splitWhitespace(toLowerCase(brandName)), Significant)

SomePartIn(brandName, placeName) ==
    \E k \in 1..Len(BrandParts(brandName)) :
        includes(toLowerCase(placeName), BrandParts(brandName)[k])

\* the strict brand filter of getAllAmenityCoordinates
MatchesBrandStrict(brandName, place) ==
    /\ SomePartIn(brandName, place.name)
    /\ ~includes(toLowerCase(place.name), "google")
    /\ ~includes(toLowerCase(place.name), "test")

\* the brand filter of getAmenityCoordinates
MatchesBrand(brandName, place) == SomePartIn(brandName, place.name)

\* the variant that allows one page more
PageCapRaised == 3 + 1

\* for (let page = 0; page < 3; page++)
PageCap == 3

\* the generic branch of getAllAmenityCoordinates: up to 3 pages
RECURSIVE FetchPages(_, _, _)
FetchPages(prov, amenityType, page) ==
    IF page >= PageCap THEN <<>>
    ELSE NearbyResults(prov, amenityType, page + 1)
             \o (IF HasNextPageToken(prov, page + 1)
                 THEN FetchPages(prov, amenityType, page + 1)
                 ELSE <<>>)

getAllAmenityCoordinates(prov, amenityType, specificNames) ==
    IF ~prov.geocode THEN <<>>
    ELSE IF Len(specificNames) > 0
         THEN MapPlaces(
                  Flatten([b \in 1..Len(specificNames) |->
                      LET Keep(place) == MatchesBrandStrict(specificNames[b], place)
                      IN  SelectSeq(NearbyResults(prov, amenityType, 1), Keep)]),
                  amenityType)
         ELSE MapPlaces(FetchPages(prov, amenityType, 0), amenityType)

\* what one placesNearby request of a display lookup gives: a rejection, or
\* results
NearbyReplies ==
    {[ok |-> FALSE, count |-> 0]}
        \cup {[ok |-> TRUE, count |-> c] : c \in ResultCounts}

\* the placesNearby requests of one display lookup: one per brand name, or
\* the generic one
NearbyRequests(specificNames) ==
    IF Len(specificNames) > 0 THEN Len(specificNames) ELSE 1

\* what one display lookup meets: whether its own getCityCoordinates finds
\* the city, and the reply to each of its placesNearby requests in order;
\* when the city is not found no request is made
LookupReplies(specificNames) ==
    {met \in [geocode : BOOLEAN,
              replies : [1..NearbyRequests(specificNames) -> NearbyReplies]] :
        met.geocode \/ \A k \in DOMAIN met.replies : ~met.replies[k].ok}

\* one pass of for (const brandName of specificNames): a rejected request is
\* caught inside the loop and adds nothing
BrandResults(reply, amenityType, brandName) ==
    LET Keep(place) == MatchesBrand(brandName, place)
    IN  IF reply.ok THEN SelectSeq(NearbyResults(reply, amenityType, 1), Keep)
        ELSE <<>>

\* variant: the display lookup returns every place it found
getAmenityCoordinatesUnsliced(met, amenityType, limit, specificNames) ==
    IF ~met.geocode THEN <<>>
    ELSE IF Len(specificNames) > 0
         THEN MapPlaces(
                  Flatten([b \in 1..Len(specificNames) |->
                      BrandResults(met.replies[b], amenityType, specificNames[b])]),
                  amenityType)
         ELSE IF ~met.replies[1].ok THEN <<>>
         ELSE MapPlaces(NearbyResults(met.replies[1], amenityType, 1), amenityType)

\* getAmenityCoordinates(city, amenityType, limit = 5, specificNames = []);
\* a rejected generic request is caught by the outer try and gives []
getAmenityCoordinates(met, amenityType, limit, specificNames) ==
    IF ~met.geocode THEN <<>>
    ELSE IF Len(specificNames) > 0
         THEN MapPlaces(
                  slice(Flatten([b \in 1..Len(specificNames) |->
                      BrandResults(met.replies[b], amenityType, specificNames[b])]),
                        limit),
                  amenityType)
         ELSE IF ~met.replies[1].ok THEN <<>>
         ELSE MapPlaces(slice(NearbyResults(met.replies[1], amenityType, 1), limit),
                        amenityType)

\* getNeighborhoodFromCoordinates(amenity.lat, amenity.lng)
getNeighborhoodFromCoordinates(prov, amenity) ==
    CASE prov.pattern = "same" -> "Downtown"
      [] prov.pattern = "spread" ->
            SpreadNames[((amenity.loc - 1 + TypeShift(amenity.type))
                            % Len(SpreadNames)) + 1]
      [] OTHER -> NULL

----------------------------------------------------------------------------
(* scoreNeighborhoodsByAmenities *)

\* specificBrands[amenityType] || []
BrandNames(brands, amenityType) ==
    IF Has(brands, amenityType) THEN Get(brands, amenityType) ELSE <<>>

\* the places getAllAmenityCoordinates maps from k provider results
PlacesOf(amenityType, k) ==
    [i \in 1..k |-> [name |-> PlaceName(i), loc |-> i, type |-> amenityType]]

\* neighborhoodScores[neighborhood] where the object has no such key of its
\* own but inherits one: the read gives the inherited function, which is
\* truthy, so if (!neighborhoodScores[neighborhood]) creates nothing
ReadsInherited(o, k) == ~Has(o, k) /\ k \in InheritedNames

\* variant: the count of a type starts at 0 and only later places increment it
AttributeAmenityNoFirstCount(scores, byNb, amenityType, amenity, neighborhood) ==
    IF ~Truthy(neighborhood)
    THEN [scores |-> scores, byNb |-> byNb, throws |-> FALSE]
    ELSE IF ReadsInherited(scores, neighborhood)
    THEN [scores |-> scores, byNb |-> byNb, throws |-> TRUE]
    ELSE
        LET s1 == IF Has(scores, neighborhood) THEN scores
                  ELSE Put(scores, neighborhood, EmptyObject)
            a1 == IF Has(scores, neighborhood) THEN byNb
                  ELSE Put(byNb, neighborhood, EmptyObject)
            fresh == ~Has(Get(s1, neighborhood), amenityType)
            cnt == IF fresh THEN 0 ELSE Get(Get(s1, neighborhood), amenityType) + 1
            lst == IF fresh THEN <<>> ELSE Get(Get(a1, neighborhood), amenityType)
        IN  [scores |-> Put(s1, neighborhood,
                            Put(Get(s1, neighborhood), amenityType, cnt)),
             byNb   |-> Put(a1, neighborhood,
                            Put(Get(a1, neighborhood), amenityType,
                                Append(lst, amenity))),
             throws |-> FALSE]

\* one iteration of the attribution loop. For a name that {} inherits the
\* two objects are not touched: the count and the list are both written to
\* the one inherited function under amenityType (0, then [], then ++ makes
\* 1, or a count left there by an earlier place), and .push on that number
\* throws a TypeError. The amenity types of the model are none of the
\* inherited names, so the test of the type reads own keys only
AttributeAmenity(scores, byNb, amenityType, amenity, neighborhood) ==
    IF ~Truthy(neighborhood)
    THEN [scores |-> scores, byNb |-> byNb, throws |-> FALSE]
    ELSE IF ReadsInherited(scores, neighborhood)
    THEN [scores |-> scores, byNb |-> byNb, throws |-> TRUE]
    ELSE
        LET s1 == IF Has(scores, neighborhood) THEN scores
                  ELSE Put(scores, neighborhood, EmptyObject)
            a1 == IF Has(scores, neighborhood) THEN byNb
                  ELSE Put(byNb, neighborhood, EmptyObject)
            fresh == ~Has(Get(s1, neighborhood), amenityType)
            cnt == IF fresh THEN 0 ELSE Get(Get(s1, neighborhood), amenityType)
            lst == IF fresh THEN <<>> ELSE Get(Get(a1, neighborhood), amenityType)
        IN  [scores |-> Put(s1, neighborhood,
                            Put(Get(s1, neighborhood), amenityType, cnt + 1)),
             byNb   |-> Put(a1, neighborhood,
                            Put(Get(a1, neighborhood), amenityType,
                                Append(lst, amenity))),
             throws |-> FALSE]

\* the records that follow the first one in the same list of places
RECURSIVE SkipList(_, _)
SkipList(recs, list) ==
    IF recs = <<>> \/ Head(recs).list # list THEN recs
    ELSE SkipList(Tail(recs), list)

\* the attribution loop over a whole sequence of located places; a throw
\* is caught after the inner loop, so the rest of that list is not scored
RECURSIVE AttributeAll(_, _, _)
AttributeAll(scores, byNb, recs) ==
    IF recs = <<>> THEN [scores |-> scores, byNb |-> byNb]
    ELSE LET r == AttributeAmenity(scores, byNb, Head(recs).type,
                                   Head(recs).place, Head(recs).neighborhood)
         IN  AttributeAll(r.scores, r.byNb,
                          IF r.throws THEN SkipList(Tail(recs), Head(recs).list)
                          ELSE Tail(recs))

RECURSIVE SumValues(_, _)
SumValues(o, ks) ==
    IF ks = <<>> THEN 0 ELSE Get(o, Head(ks)) + SumValues(o, Tail(ks))

\* Object.values(amenityCount).reduce((a, b) => a + b, 0)
TotalAmenities(amenityCount) == SumValues(amenityCount, amenityCount.keys)

\* Object.keys(amenityCount).length
AmenityTypes(amenityCount) == Len(OwnPropertyKeys(amenityCount))

\* variant: the variety bonus multiplies the whole sum
AmenityScoreWholeSumTimesFive(totalAmenities, amenityTypes) ==
    (totalAmenities + amenityTypes) * 5

\* variant: the score is the variety bonus alone
AmenityScoreBonusOnly(totalAmenities, amenityTypes) == amenityTypes * 5

AmenityScore(totalAmenities, amenityTypes) == totalAmenities + (amenityTypes * 5)

ScoreEntry(neighborhood, amenityCount) ==
    [neighborhood   |-> neighborhood,
     amenityScore   |-> AmenityScore(TotalAmenities(amenityCount),
                                     AmenityTypes(amenityCount)),
     amenityCounts  |-> amenityCount,
     totalAmenities |-> TotalAmenities(amenityCount),
     amenityTypes   |-> AmenityTypes(amenityCount)]

\* the comparator (a, b) => b.amenityScore - a.amenityScore
CompareScores(a, b) == b.amenityScore - a.amenityScore

\* Array.prototype.sort is stable: the element at j ends up before the one
\* at i when the comparator puts it first, or when the comparator puts
\* neither first and j is before i
SortsBefore(s, j, i) ==
    \/ CompareScores(s[j], s[i]) < 0
    \/ /\ ~(CompareScores(s[i], s[j]) < 0)
       /\ j < i

StableSort(s) ==
    LET Position(i) ==
            Cardinality({j \in 1..Len(s) : j # i /\ SortsBefore(s, j, i)}) + 1
    IN  [p \in 1..Len(s) |-> s[CHOOSE i \in 1..Len(s) : Position(i) = p]]

\* Object.entries(neighborhoodScores).map(...).sort(...)
RankNeighborhoods(scores) ==
    LET ks == OwnPropertyKeys(scores)
    IN  StableSort([i \in 1..Len(ks) |-> ScoreEntry(ks[i], Get(scores, ks[i]))])

----------------------------------------------------------------------------
(* discoverSubreddits and scrapeReddit *)

\* subreddits one subreddit search returns, posts one post search returns
MaxForums == 2

MaxChildren == 2

\* queries of one scrapeReddit call
MaxQueries == 2

\* cities discoverSubreddits is called with: scrapeReddit calls it only for
\* a truthy city
ScrapeCities == {"Springfield", "NYC"}

\* child.data of the subreddit search
Subreddits ==
    [subscribers : {100, 101}, over18 : BOOLEAN,
     display_name : {"SpringfieldMO", "Cats"},
     public_description : {NULL, "", "Olive trees", "Ask us"}]

\* the lists of at most n distinct members of S
RECURSIVE Listings(_, _)
Listings(S, n) ==
    IF n = 0 THEN {<<>>}
    ELSE LET shorter == Listings(S, n - 1)
         IN  shorter \cup {Append(l, x) : l \in shorter, x \in S}

DistinctListings(S, n) ==
    {l \in Listings(S, n) : \A i, j \in 1..Len(l) : l[i] = l[j] => i = j}

\* what axios.get gives: a rejection, a body without data.children, or a
\* listing
Failed == [kind |-> "failed", children |-> <<>>]

NoData == [kind |-> "nodata", children |-> <<>>]

Listing(children) == [kind |-> "listing", children |-> children]

SearchResponses ==
    {Failed, NoData} \cup {Listing(l) : l \in DistinctListings(Subreddits, MaxForums)}

\* isRelevant, with && and || evaluated left to right: "TypeError" when the
\* description is read and is null
IsRelevant(subreddit, cityArg) ==
    IF ~(subreddit.subscribers > 100) THEN "false"
    ELSE IF subreddit.over18 THEN "false"
    ELSE IF includes(toLowerCase(subreddit.display_name), toLowerCase(cityArg))
    THEN "true"
    ELSE IF subreddit.public_description = NULL THEN "TypeError"
    ELSE IF \/ includes(toLowerCase(subreddit.public_description), "neighborhood")
            \/ includes(toLowerCase(subreddit.public_description), "live")
            \/ includes(toLowerCase(subreddit.public_description), "ask")
    THEN "true"
    ELSE "false"

\* response.data.data.children.forEach(child => { if (isRelevant) push })
RECURSIVE RelevantSubreddits(_, _, _)
RelevantSubreddits(children, cityArg, subreddits) ==
    IF children = <<>> THEN Returned(subreddits)
    ELSE LET relevant == IsRelevant(Head(children), cityArg)
         IN  IF relevant = "TypeError" THEN Threw
             ELSE RelevantSubreddits(
                      Tail(children), cityArg,
                      IF relevant = "true"
                      THEN Append(subreddits, Head(children).display_name)
                      ELSE subreddits)

\* [cityLower, cityLower + 'housing', 'Ask' + city, cityLower + 'neighborhoods']
\*     .filter(s => s.length > 0)
FallbackSubreddits(cityArg) ==
    LET NonEmpty(name) == Len(name) > 0
    IN  SelectSeq(<<toLowerCase(cityArg),
                    toLowerCase(cityArg) \o "housing",
                    "Ask" \o cityArg,
                    toLowerCase(cityArg) \o "neighborhoods">>, NonEmpty)

\* the catch block: [cityLower, 'Ask' + city]
UltimateFallback(cityArg) == <<toLowerCase(cityArg), "Ask" \o cityArg>>

\* the body of the try block
TrySearch(cityArg, resp) ==
    CASE resp.kind = "failed" -> Threw
      [] resp.kind = "nodata" -> Returned(FallbackSubreddits(cityArg))
      [] OTHER ->
             LET found == RelevantSubreddits(resp.children, cityArg, <<>>)
             IN  IF found.kind = "threw" THEN Threw
                 ELSE IF Len(found.value) > 0 THEN found
                 ELSE Returned(FallbackSubreddits(cityArg))

\* the variant without the catch block
discoverSubredditsUncaught(cityArg, resp) == TrySearch(cityArg, resp)

\* discoverSubreddits(city), given what the search call gives
discoverSubreddits(cityArg, resp) ==
    IF TrySearch(cityArg, resp).kind = "threw"
    THEN Returned(UltimateFallback(cityArg))
    ELSE TrySearch(cityArg, resp)

\* child.data of the post search
Posts ==
    {[title |-> "Rent", selftext |-> "Too high", subreddit |-> "NYC"],
     [title |-> "Parks", selftext |-> "Many", subreddit |-> "AskNYC"],
     [title |-> "", selftext |-> "No title", subreddit |-> "NYC"],
     [title |-> "No body", selftext |-> "", subreddit |-> "NYC"]}

PostReplies ==
    {Failed, NoData} \cup {Listing(l) : l \in DistinctListings(Posts, MaxChildren)}

\* String.prototype.substring(0, n)
substring(str, n) == SubSeq(str, 1, IF Len(str) < n THEN Len(str) ELSE n)

\* the text pushed for a post
PostContent(post) ==
    "Title: " \o post.title \o "\nContent: " \o substring(post.selftext, 300)
        \o "\nSubreddit: r/" \o post.subreddit

\* children.forEach(child => { if (post.title && post.selftext) posts.push })
RECURSIVE KeptPosts(_)
KeptPosts(children) ==
    IF children = <<>> THEN <<>>
    ELSE (IF Head(children).title # "" /\ Head(children).selftext # ""
          THEN <<PostContent(Head(children))>> ELSE <<>>)
         \o KeptPosts(Tail(children))

\* what one pass of the loop body adds to posts: nothing when the request
\* rejects or the body has no data.children
PostsOfReply(reply) ==
    IF reply.kind = "listing" THEN KeptPosts(reply.children) ELSE <<>>

\* the variant whose catch block gives up the posts gathered so far
AfterQueryAborting(gathered, reply) ==
    IF reply.kind = "failed" THEN <<>> ELSE gathered \o PostsOfReply(reply)

\* posts after one pass of the loop body
AfterQuery(gathered, reply) == gathered \o PostsOfReply(reply)

QueryListings == DistinctListings({"quiet streets", "rent"}, MaxQueries)

\* a subreddits value: null, or a list of names
NoSubreddits == [given |-> FALSE, names |-> <<>>]

GivenSubreddits(names) == [given |-> TRUE, names |-> names]

\* the subreddits argument: null, or a list given by the caller
SubredditArguments == {NoSubreddits, GivenSubreddits(<<"AskNYC">>)}

NoSearch == [kind |-> "none", children |-> <<>>]

\* no reply of the model received
NoText == [received |-> FALSE, text |-> <<>>]

Received(text) == [received |-> TRUE, text |-> text]

IdleScraper ==
    /\ scrapeCity = ""
    /\ forumSearch = NoSearch
    /\ searchSubreddits = NoSubreddits
    /\ scrapeQueries = <<>>
    /\ queryIndex = 1
    /\ searchReplies = <<>>
    /\ scrapedPosts = <<>>
    /\ amenityText = NoText

----------------------------------------------------------------------------
(* getAllAmenityCoordinates and getNeighborhoodFromCoordinates, call by call *)

\* places on one page of a placesNearby reply
MaxPagePlaces == 2

\* response.data.results entries
PagePlaces ==
    {[name |-> "Crunch Fitness", loc |-> 1],
     [name |-> "Crunch Google", loc |-> 2],
     [name |-> "Yoga Loft", loc |-> 3]}

\* what placesNearby gives: a rejection, or results with or without a
\* next_page_token
FailedPage == [kind |-> "failed", results |-> <<>>, token |-> NULL]

Page(results, token) == [kind |-> "page", results |-> results, token |-> token]

PageReplies ==
    {FailedPage}
        \cup {Page(l, t) : l \in DistinctListings(PagePlaces, MaxPagePlaces),
                           t \in {NULL, "tokenA", "tokenB"}}

\* the replies drawn when the lookup is awaited by the scorer: a rejection,
\* an empty page, last pages of one place, pages with a token
ScorerPageReplies ==
    {FailedPage,
     Page(<<>>, NULL),
     Page(<<[name |-> "Crunch Fitness", loc |-> 1]>>, NULL),
     Page(<<[name |-> "Yoga Loft", loc |-> 3]>>, NULL),
     Page(<<[name |-> "Crunch Google", loc |-> 2]>>, "tokenB"),
     Page(<<[name |-> "Crunch Fitness", loc |-> 1],
            [name |-> "Yoga Loft", loc |-> 3]>>, "tokenA")}

\* the specificNames argument
LookupNames == {<<>>, <<"crunch">>, <<"yoga loft", "crunch">>, <<"LA">>}

\* a request sent to placesNearby and the reply to it
NearbyCall(keyword, pagetoken, reply) ==
    [keyword |-> keyword, pagetoken |-> pagetoken, reply |-> reply]

\* response.data.results.filter(place => ...) of the brand branch
FilterByBrand(brandName, results) ==
    LET Keep(place) == MatchesBrandStrict(brandName, place)
    IN  SelectSeq(results, Keep)

\* the variant whose catch block gives up the places gathered so far
AfterBrandQueryEmptying(places, brandName, reply) ==
    IF reply.kind = "failed" THEN <<>>
    ELSE places \o FilterByBrand(brandName, reply.results)

\* allPlaces after one pass of the brand loop: a rejected request only logs
AfterBrandQuery(places, brandName, reply) ==
    IF reply.kind = "failed" THEN places
    ELSE places \o FilterByBrand(brandName, reply.results)

\* address components of the first reverse-geocoding result
Components ==
    {[types |-> {"neighborhood", "political"}, long_name |-> "Mission"],
     [types |-> {"neighborhood"}, long_name |-> "Sunset"],
     [types |-> {"locality", "political"}, long_name |-> "Springfield"],
     [types |-> {"route"}, long_name |-> "Main St"]}

MaxComponents == 3

FormattedAddresses == {"12 Main St, Springfield", "Main St", ""}

\* what reverseGeocode gives: a rejection, no results, or a first result
FailedLookup ==
    [kind |-> "failed", address_components |-> <<>>, formatted_address |-> ""]

NoResults ==
    [kind |-> "empty", address_components |-> <<>>, formatted_address |-> ""]

FirstResult(components, address) ==
    [kind |-> "result", address_components |-> components,
     formatted_address |-> address]

GeocodeReplies ==
    {FailedLookup, NoResults}
        \cup {FirstResult(c, a) : c \in DistinctListings(Components, MaxComponents),
                                  a \in FormattedAddresses}

\* the first component whose types include the wanted one, 0 if none
FirstTyped(components, wanted) ==
    IF \E i \in 1..Len(components) : wanted \in components[i].types
    THEN CHOOSE i \in 1..Len(components) :
             /\ wanted \in components[i].types
             /\ \A j \in 1..(i - 1) : wanted \notin components[j].types
    ELSE 0

\* String.prototype.split(',')[0]
FirstSegment(str) ==
    IF \E i \in 1..Len(str) : CharAt(str, i) = ","
    THEN SubSeq(str, 1, (CHOOSE i \in 1..Len(str) :
                             /\ CharAt(str, i) = ","
                             /\ \A j \in 1..(i - 1) : CharAt(str, j) # ",") - 1)
    ELSE str

\* the variant that looks for a locality before a neighborhood
ResolveNeighborhoodLocalityFirst(reply) ==
    IF reply.kind # "result" THEN NULL
    ELSE IF FirstTyped(reply.address_components, "locality") # 0
    THEN reply.address_components[
             FirstTyped(reply.address_components, "locality")].long_name
    ELSE IF FirstTyped(reply.address_components, "neighborhood") # 0
    THEN reply.address_components[
             FirstTyped(reply.address_components, "neighborhood")].long_name
    ELSE FirstSegment(reply.formatted_address)

\* the body of getNeighborhoodFromCoordinates, given the lookup's reply
ResolveNeighborhood(reply) ==
    IF reply.kind # "result" THEN NULL
    ELSE IF FirstTyped(reply.address_components, "neighborhood") # 0
    THEN reply.address_components[
             FirstTyped(reply.address_components, "neighborhood")].long_name
    ELSE IF FirstTyped(reply.address_components, "locality") # 0
    THEN reply.address_components[
             FirstTyped(reply.address_components, "locality")].long_name
    ELSE FirstSegment(reply.formatted_address)

NoReply == [kind |-> "none", address_components |-> <<>>, formatted_address |-> ""]

NotReturned == [kind |-> "none", value |-> <<>>]

IdleLookup ==
    /\ lookupNames = <<>>
    /\ lookupIndex = 0
    /\ nextPageToken = NULL
    /\ allPlaces = <<>>
    /\ nearbyCalls = <<>>
    /\ lookupResult = NotReturned
    /\ geocodeReply = NoReply
    /\ resolved = NotReturned
    /\ lookups = <<>>

----------------------------------------------------------------------------
(* The scorer as a process: one step per awaited collaborator call *)

IdleFilter ==
    /\ posts = <<>>
    /\ filterText = <<>>
    /\ filterOutcome = [kind |-> "none", value |-> <<>>]

IdleHandler ==
    /\ handler = "none"
    /\ request = [city |-> "", preferences |-> ""]
    /\ provider = NoProvider
    /\ specificBrands = EmptyObject
    /\ redditQueries = [iterable |-> TRUE, queries |-> <<>>]
    /\ redditPosts = <<>>
    /\ qualitativeScores = EmptyObject
    /\ concernsMap = [kind |-> "object", entries |-> EmptyObject]
    /\ recommendations = <<>>
    /\ mapData = [cityCoordinates |-> NULL, amenities |-> EmptyObject]
    /\ response = [status |-> 0, body |-> "none", sends |-> 0]
    /\ filteredPosts = <<>>
    /\ filterCalls = 0
    /\ mapIndex = 0

ScoreInit ==
    /\ pc = "locate"
    /\ amenitiesNeeded \in AmenityLists
    /\ typeIndex = 1
    /\ amenities = <<>>
    /\ neighborhoodScores = EmptyObject
    /\ neighborhoodAmenities = EmptyObject
    /\ scoredNeighborhoods = <<>>
    /\ located = <<>>
    /\ IdleFilter
    /\ IdleHandler
    /\ IdleScraper
    /\ IdleLookup

\* what getAllAmenityCoordinates may return for a type: inside a request,
\* what the request's provider holds; for the scorer alone, any few places
LocatedPlaces(amenityType) ==
    IF handler = "none"
    THEN {PlacesOf(amenityType, k) : k \in 0..(MaxPlaces - Len(located))}
    ELSE {getAllAmenityCoordinates(provider, amenityType,
                                   BrandNames(specificBrands, amenityType))}

\* what getNeighborhoodFromCoordinates may return for a place: what the
\* provider of the run resolves it to, and any answer where the scorer runs
\* alone, without a provider
ResolvedNames(amenity) ==
    IF provider = NoProvider THEN ResolverAnswers
    ELSE {getNeighborhoodFromCoordinates(provider, amenity)}

\* const amenities = await getAllAmenityCoordinates(city, amenityType, brandNames)
LocateAmenities ==
    /\ pc = "locate"
    /\ typeIndex <= Len(amenitiesNeeded)
    /\ amenities' \in LocatedPlaces(amenitiesNeeded[typeIndex])
    /\ pc' = "attribute"
    /\ UNCHANGED <<amenitiesNeeded, typeIndex, neighborhoodScores,
                   neighborhoodAmenities, scoredNeighborhoods, located>>
    /\ UNCHANGED filterVars
    /\ UNCHANGED handlerVars
    /\ UNCHANGED scraperVars
    /\ UNCHANGED amenityText
    /\ UNCHANGED lookupVars
    /\ UNCHANGED <<postFilterVars, mapIndex>>

\* const neighborhood = await getNeighborhoodFromCoordinates(...) and the
\* body of the attribution loop; a TypeError thrown in the body leaves the
\* loop for the catch of this amenity type, which only logs
ResolveAndAttribute ==
    /\ pc = "attribute"
    /\ amenities # <<>>
    /\ \E neighborhood \in ResolvedNames(Head(amenities)) :
           LET amenityType == amenitiesNeeded[typeIndex]
               r == AttributeAmenity(neighborhoodScores, neighborhoodAmenities,
                                     amenityType, Head(amenities), neighborhood)
           IN  /\ neighborhoodScores' = r.scores
               /\ neighborhoodAmenities' = r.byNb
               /\ located' = Append(located,
                                    [type |-> amenityType,
                                     list |-> typeIndex,
                                     place |-> Head(amenities),
                                     neighborhood |-> neighborhood])
               /\ amenities' = IF r.throws THEN <<>> ELSE Tail(amenities)
    /\ UNCHANGED <<pc, amenitiesNeeded, typeIndex, scoredNeighborhoods>>
    /\ UNCHANGED filterVars
    /\ UNCHANGED handlerVars
    /\ UNCHANGED scraperVars
    /\ UNCHANGED amenityText
    /\ UNCHANGED lookupVars
    /\ UNCHANGED <<postFilterVars, mapIndex>>

\* the places of this type are exhausted: next amenity type
NextAmenityType ==
    /\ pc = "attribute"
    /\ amenities = <<>>
    /\ typeIndex' = typeIndex + 1
    /\ pc' = "locate"
    /\ UNCHANGED <<amenitiesNeeded, amenities, neighborhoodScores,
                   neighborhoodAmenities, scoredNeighborhoods, located>>
    /\ UNCHANGED filterVars
    /\ UNCHANGED handlerVars
    /\ UNCHANGED scraperVars
    /\ UNCHANGED amenityText
    /\ UNCHANGED lookupVars
    /\ UNCHANGED <<postFilterVars, mapIndex>>

\* all types processed: compute the scores, sort and return
ReturnScored ==
    /\ pc = "locate"
    /\ typeIndex > Len(amenitiesNeeded)
    /\ scoredNeighborhoods' = RankNeighborhoods(neighborhoodScores)
    /\ pc' = "scored"
    /\ UNCHANGED <<amenitiesNeeded, typeIndex, amenities, neighborhoodScores,
                   neighborhoodAmenities, located>>
    /\ UNCHANGED filterVars
    /\ UNCHANGED handlerVars
    /\ UNCHANGED scraperVars
    /\ UNCHANGED amenityText
    /\ UNCHANGED lookupVars
    /\ UNCHANGED <<postFilterVars, mapIndex>>

ScoreNext ==
    \/ LocateAmenities
    \/ ResolveAndAttribute
    \/ NextAmenityType
    \/ ReturnScored

SpecScore == ScoreInit /\ [][ScoreNext]_vars

----------------------------------------------------------------------------
(* Language-model output: free text expected to contain JSON *)

\* posts one filter call may receive
MaxPosts == 2

PostTexts == {"Title: a", "Title: b"}

PostLists == UNION {[1..n -> PostTexts] : n \in 1..MaxPosts}

\* pieces a response text is made of: the code-fence markers (three
\* backquotes, with or without the word json), prose, one JSON value
FenceJson == [tok |-> "fence_json", type |-> "", items |-> <<>>]

Fence == [tok |-> "fence", type |-> "", items |-> <<>>]

Prose == [tok |-> "prose", type |-> "", items |-> <<>>]

JsonText(type, items) == [tok |-> "json", type |-> type, items |-> items]

\* items of a verdict array: a verdict object, or a JSON null
Verdict(i, r) == [kind |-> "object", postIndex |-> i, isRelevant |-> r]

NullItem == [kind |-> "null", postIndex |-> 0, isRelevant |-> FALSE]

VerdictItems ==
    {Verdict(i, r) : i \in 1..(MaxPosts + 1), r \in BOOLEAN} \cup {NullItem}

VerdictArrays == UNION {[1..n -> VerdictItems] : n \in 0..2}

\* JSON values the relevance response may carry
FilterJson ==
    {JsonText("array", a) : a \in VerdictArrays}
        \cup {JsonText("object", <<>>), JsonText("null", <<>>),
              JsonText("number", <<>>)}

\* response texts: bare JSON, fenced JSON, JSON with prose around it, no JSON
FilterTexts ==
    {<<j>> : j \in FilterJson}
        \cup {<<FenceJson, j, Fence>> : j \in FilterJson}
        \cup {<<Prose, j>> : j \in FilterJson}
        \cup {<<>>, <<Prose>>, <<FenceJson, Fence>>}

\* the two replace calls that delete the opening and closing code-fence
\* markers, then trim()
StripFences(text) ==
    LET NotFence(t) == t.tok # "fence_json" /\ t.tok # "fence"
    IN  SelectSeq(text, NotFence)

\* JSON.parse: succeeds only on a text that is exactly one JSON value
JSONParse(text) ==
    IF Len(text) = 1 /\ text[1].tok = "json"
    THEN [ok |-> TRUE, type |-> text[1].type, items |-> text[1].items]
    ELSE [ok |-> FALSE, type |-> "", items |-> <<>>]

----------------------------------------------------------------------------
(* filterRelevantPosts *)

\* relevanceScores.find(s => s.postIndex === i + 1): "found", "undefined",
\* or "TypeError" when an item read before any match is null
RECURSIVE FindScore(_, _)
FindScore(items, index) ==
    IF items = <<>> THEN [res |-> "undefined", isRelevant |-> FALSE]
    ELSE IF Head(items).kind = "null"
         THEN [res |-> "TypeError", isRelevant |-> FALSE]
         ELSE IF Head(items).postIndex = index
              THEN [res |-> "found", isRelevant |-> Head(items).isRelevant]
              ELSE FindScore(Tail(items), index)

\* the callback of posts.filter for the post at 1-based position i
KeepPost(parsed, i) ==
    IF parsed.type # "array" THEN "TypeError"
    ELSE LET score == FindScore(parsed.items, i)
         IN  IF score.res = "TypeError" THEN "TypeError"
             ELSE IF score.res = "found" /\ score.isRelevant THEN "keep"
             ELSE "drop"

RECURSIVE KeptFrom(_, _, _)
KeptFrom(ps, parsed, i) ==
    IF i > Len(ps) THEN <<>>
    ELSE IF KeepPost(parsed, i) = "keep"
         THEN <<ps[i]>> \o KeptFrom(ps, parsed, i + 1)
         ELSE KeptFrom(ps, parsed, i + 1)

\* variant: an unparsable response drops every post
filterRelevantPostsFailClosed(ps, text) ==
    LET parsed == JSONParse(StripFences(text))
    IN  IF ~parsed.ok THEN Returned(<<>>)
        ELSE IF \E i \in 1..Len(ps) : KeepPost(parsed, i) = "TypeError"
             THEN Threw
             ELSE Returned(KeptFrom(ps, parsed, 1))

filterRelevantPosts(ps, text) ==
    LET parsed == JSONParse(StripFences(text))
    IN  IF ~parsed.ok THEN Returned(ps)
        ELSE IF \E i \in 1..Len(ps) : KeepPost(parsed, i) = "TypeError"
             THEN Threw
             ELSE Returned(KeptFrom(ps, parsed, 1))

IdleScorer ==
    /\ amenitiesNeeded = <<>>
    /\ typeIndex = 1
    /\ amenities = <<>>
    /\ neighborhoodScores = EmptyObject
    /\ neighborhoodAmenities = EmptyObject
    /\ scoredNeighborhoods = <<>>
    /\ located = <<>>

FilterInit ==
    /\ pc = "filter_call"
    /\ posts \in PostLists
    /\ filterText = <<>>
    /\ filterOutcome = [kind |-> "none", value |-> <<>>]
    /\ IdleScorer
    /\ IdleHandler
    /\ IdleScraper
    /\ IdleLookup

\* const response = await openai.chat.completions.create(...)
RelevanceResponse ==
    /\ pc = "filter_call"
    /\ filterText' \in FilterTexts
    /\ pc' = "filter_parse"
    /\ UNCHANGED <<posts, filterOutcome>>
    /\ UNCHANGED scorerVars
    /\ UNCHANGED handlerVars
    /\ UNCHANGED scraperVars
    /\ UNCHANGED amenityText
    /\ UNCHANGED lookupVars
    /\ UNCHANGED <<postFilterVars, mapIndex>>

\* strip the fences, parse, filter and return
ParseAndFilter ==
    /\ pc = "filter_parse"
    /\ filterOutcome' = filterRelevantPosts(posts, filterText)
    /\ pc' = "filter_done"
    /\ UNCHANGED <<posts, filterText>>
    /\ UNCHANGED scorerVars
    /\ UNCHANGED handlerVars
    /\ UNCHANGED scraperVars
    /\ UNCHANGED amenityText
    /\ UNCHANGED lookupVars
    /\ UNCHANGED <<postFilterVars, mapIndex>>

FilterNext ==
    \/ RelevanceResponse
    \/ ParseAndFilter

SpecFilter == FilterInit /\ [][FilterNext]_vars

----------------------------------------------------------------------------
(* POST /api/recommendations: the three versions of the handler *)

\* recommendations the analysis model may list
MaxRecs == 6

Handlers == {"amenityFirst", "postTextFirst", "boundaries"}

Cities == {"", "Springfield"}

PreferenceTexts ==
    {"", "quiet area", "Gym by a bus stop"}

Requests == [city : Cities, preferences : PreferenceTexts]

\* a reply of the language model: the call fails, or it returns a text
ModelReplies(texts) ==
    {[ok |-> FALSE, text |-> <<>>]} \cup {[ok |-> TRUE, text |-> t] : t \in texts}

\* the shapes a response text comes in
TextsAround(jsons) ==
    {<<j>> : j \in jsons}
        \cup {<<FenceJson, j, Fence>> : j \in jsons}
        \cup {<<Prose, j>> : j \in jsons}
        \cup {<<>>, <<Prose>>}

\* JSON values that are not of the shape a call site expects
OtherJson == {JsonText("object", <<>>), JsonText("null", <<>>),
              JsonText("number", <<>>)}

\* a response as the client receives it; sends counts the calls of res.json
Sent(status, body) == [status |-> status, body |-> body, sends |-> 1]

NotSent == [status |-> 0, body |-> "none", sends |-> 0]

\* no mapData has been built
EmptyMapData == [cityCoordinates |-> NULL, amenities |-> EmptyObject]

\* ---- amenity extraction (amenity-first) ----

AmenityItems ==
    {[type |-> "gym", specificNames |-> b] : b \in BrandLists}
        \cup {[type |-> "park", specificNames |-> <<>>]}

\* no item, one item, a gym and then a park, the gym twice
ExtractedLists ==
    {l \in UNION {[1..n -> AmenityItems] : n \in 0..2} :
        Len(l) = 2 =>
            /\ l[1].type = "gym" /\ Len(l[1].specificNames) < 2
            /\ l[2].specificNames = <<>>
            /\ l[2].type = "gym" => l[1].specificNames = <<>>}

\* {"amenities": "gym"}: the field is there and is not a list
AmenitiesNotAList == JsonText("amenities_string", <<>>)

AmenityTexts ==
    TextsAround({JsonText("amenities", l) : l \in ExtractedLists}
                    \cup OtherJson
                    \cup {JsonText("array", <<>>), AmenitiesNotAList})

DefaultAmenities == <<"gym", "grocery_or_supermarket">>

RECURSIVE BrandsOf(_, _)
BrandsOf(items, brands) ==
    IF items = <<>> THEN brands
    ELSE BrandsOf(Tail(items),
                  Put(brands, Head(items).type, Head(items).specificNames))

\* the variant whose catch block leaves the list empty
ParseAmenitiesNoDefault(text) ==
    LET parsed == JSONParse(StripFences(text))
    IN  IF parsed.ok /\ parsed.type = "amenities"
        THEN [amenitiesNeeded |-> [i \in 1..Len(parsed.items) |-> parsed.items[i].type],
              specificBrands  |-> BrandsOf(parsed.items, EmptyObject)]
        ELSE [amenitiesNeeded |-> <<>>, specificBrands |-> EmptyObject]

\* the try/catch around JSON.parse(amenityText) and parsed.amenities
ParseAmenities(text) ==
    LET parsed == JSONParse(StripFences(text))
    IN  IF parsed.ok /\ parsed.type = "amenities"
        THEN [amenitiesNeeded |-> [i \in 1..Len(parsed.items) |-> parsed.items[i].type],
              specificBrands  |-> BrandsOf(parsed.items, EmptyObject)]
        ELSE [amenitiesNeeded |-> DefaultAmenities, specificBrands |-> EmptyObject]

\* ---- search queries ----

QueryLists == {<<>>, <<"quiet neighborhoods">>}

QueryTexts ==
    TextsAround({JsonText("array", q) : q \in QueryLists} \cup OtherJson)

FallbackQueries == <<"neighborhoods in city", "best places to live in city">>

\* amenity-first: JSON.parse(qualText) with its fallback
ParseQualitativeQueries(text) ==
    LET parsed == JSONParse(StripFences(text))
    IN  IF ~parsed.ok THEN [iterable |-> TRUE, queries |-> FallbackQueries]
        ELSE IF parsed.type = "array"
             THEN [iterable |-> TRUE, queries |-> parsed.items]
             ELSE [iterable |-> FALSE, queries |-> <<>>]

ParsedDataTexts ==
    TextsAround({JsonText("parsedData", q) : q \in QueryLists} \cup OtherJson)

\* const parsedData = JSON.parse(parsingText), outside any try: "SyntaxError"
\* when the text is not JSON; null parses, and the first read of a field of
\* parsedData is then a TypeError
ParsePreferences(text) ==
    LET parsed == JSONParse(StripFences(text))
    IN  CASE ~parsed.ok ->
                 [throws |-> "SyntaxError", isNull |-> FALSE,
                  iterable |-> FALSE, queries |-> <<>>]
          [] parsed.type = "null" ->
                 [throws |-> "none", isNull |-> TRUE,
                  iterable |-> FALSE, queries |-> <<>>]
          [] parsed.type = "parsedData" ->
                 [throws |-> "none", isNull |-> FALSE,
                  iterable |-> TRUE, queries |-> parsed.items]
          [] OTHER ->
                 [throws |-> "none", isNull |-> FALSE,
                  iterable |-> FALSE, queries |-> <<>>]

\* what scrapeReddit can return for a list of queries
ScrapedPosts(queries) ==
    IF queries = <<>> THEN {<<>>}
    ELSE {<<>>, <<"Title: a">>}

\* ---- analysis (post-text-first, boundaries) ----

RecList(n, withReasons) ==
    [i \in 1..n |-> [neighborhood |-> SpreadNames[i], matchReasons |-> withReasons]]

AnalysisJson ==
    {JsonText("analysis", RecList(n, TRUE)) : n \in 0..MaxRecs}
        \cup {JsonText("analysis", RecList(1, FALSE))}
        \cup {JsonText("object", <<>>)}
        \cup {JsonText("array", RecList(1, TRUE))}

AnalysisTexts ==
    TextsAround(AnalysisJson) \cup {<<Prose, j, Prose>> : j \in AnalysisJson}

\* a JSON object, or an array of objects, has braces; prose here has none
HasBraces(t) ==
    t.tok = "json" /\ (t.type \in {"analysis", "object"}
                        \/ (t.type = "array" /\ Len(t.items) > 0))

\* responseText.match(/\{[\s\S]*\}/): from the first { to the last }
JsonMatch(text) ==
    LET braced == {i \in 1..Len(text) : HasBraces(text[i])}
    IN  IF braced = {} THEN [found |-> FALSE, text |-> <<>>]
        ELSE LET lo == CHOOSE i \in braced : \A j \in braced : i <= j
                 hi == CHOOSE i \in braced : \A j \in braced : j <= i
             IN  [found |-> TRUE,
                  text  |-> IF lo = hi /\ text[lo].type = "array"
                            THEN <<JsonText("object", <<>>)>>
                            ELSE SubSeq(text, lo, hi)]

\* JSON.parse(jsonMatch[0]) and the forEach that logs each recommendation
ParseAnalysis(text) ==
    LET m == JsonMatch(StripFences(text))
        parsed == JSONParse(m.text)
    IN  IF ~m.found THEN [outcome |-> "fallback", recs |-> <<>>]
        ELSE IF ~parsed.ok \/ parsed.type # "analysis"
             THEN [outcome |-> "throws", recs |-> <<>>]
             ELSE IF \E i \in 1..Len(parsed.items) : ~parsed.items[i].matchReasons
                  THEN [outcome |-> "throws", recs |-> <<>>]
                  ELSE [outcome |-> "parsed", recs |-> parsed.items]

FallbackRecommendations == <<[neighborhood |-> "Downtown", matchReasons |-> TRUE]>>

\* ---- map data ----

\* post-text-first: amenity types from keywords in the preferences
KeywordAmenities(preferences) ==
    LET lower == toLowerCase(preferences)
    IN  (IF includes(lower, "gym") \/ includes(lower, "fitness")
         THEN <<"gym">> ELSE <<>>)
        \o (IF includes(lower, "grocery") \/ includes(lower, "supermarket")
            THEN <<"grocery_or_supermarket">> ELSE <<>>)
        \o (IF includes(lower, "transit") \/ includes(lower, "bus")
               \/ includes(lower, "metro")
            THEN <<"transit_station">> ELSE <<>>)

TypeLists == {<<>>, <<"gym">>, <<"gym", "park">>}

TypeTexts == TextsAround({JsonText("array", l) : l \in TypeLists} \cup OtherJson)

\* boundaries version: JSON.parse(amenityText) with its fallback, then
\* amenitiesNeeded.join outside the try
ParseAmenityTypes(text) ==
    LET parsed == JSONParse(StripFences(text))
    IN  IF ~parsed.ok THEN [throws |-> FALSE, amenitiesNeeded |-> DefaultAmenities]
        ELSE IF parsed.type = "array"
             THEN [throws |-> FALSE, amenitiesNeeded |-> parsed.items]
             ELSE [throws |-> TRUE, amenitiesNeeded |-> <<>>]

\* the simpler getAmenityCoordinates(city, amenityType, limit = 5)
getAmenityCoordinatesSimple(met, amenityType, limit) ==
    IF ~met.geocode \/ ~met.replies[1].ok THEN <<>>
    ELSE MapPlaces(slice(NearbyResults(met.replies[1], amenityType, 1), limit),
                   amenityType)

\* what getCityCoordinates returns: the coordinates, or null
CityLocated == "lat,lng"

CityCoordinates(geocoded) == IF geocoded THEN CityLocated ELSE NULL

RECURSIVE TypeSubsets(_, _, _, _)
TypeSubsets(byNb, neighborhood, needed, out) ==
    IF needed = <<>> THEN out
    ELSE TypeSubsets(byNb, neighborhood, Tail(needed),
             Put(out, Head(needed),
                 IF Has(byNb, neighborhood)
                        /\ Has(Get(byNb, neighborhood), Head(needed))
                 THEN slice(Get(Get(byNb, neighborhood), Head(needed)), 5)
                 ELSE <<>>))

RECURSIVE NeighborhoodSubsets(_, _, _, _)
NeighborhoodSubsets(recs, byNb, needed, out) ==
    IF recs = <<>> THEN out
    ELSE NeighborhoodSubsets(Tail(recs), byNb, needed,
             Put(out, Head(recs).neighborhood,
                 TypeSubsets(byNb, Head(recs).neighborhood, needed, EmptyObject)))

\* variant: every scored neighborhood is recommended
\* ---- amenity-first: the qualitative scores ----

\* { "neighborhoodName": 0.85, ... }, the scores in hundredths
ScoresJson ==
    {JsonText("scores", <<[neighborhood |-> "Downtown", score |-> 85]>>)}

ScoreTexts == TextsAround(ScoresJson)

RECURSIVE ScoresObject(_, _)
ScoresObject(items, o) ==
    IF items = <<>> THEN o
    ELSE ScoresObject(Tail(items), Put(o, Head(items).neighborhood, Head(items).score))

\* let qualitativeScores = {}; try { qualitativeScores = JSON.parse(...) }
\* catch { warn }
ParseQualitativeScores(text) ==
    LET parsed == JSONParse(StripFences(text))
    IN  IF parsed.ok /\ parsed.type = "scores"
        THEN ScoresObject(parsed.items, EmptyObject)
        ELSE EmptyObject

\* ---- amenity-first: the concerns of a neighborhood ----

\* the JSON values a key of the concerns reply can hold: a list of concern
\* strings, or a non-empty string given in place of the list
ConcernList(items) == [kind |-> "list", items |-> items]

ConcernString == [kind |-> "string", items |-> <<>>]

Undefined == [kind |-> "undefined", items |-> <<>>]

ConcernValues == {ConcernList(<<>>), ConcernList(<<"High rent">>), ConcernString}

ConcernEntries ==
    {<<>>} \cup {<<[neighborhood |-> n, value |-> v]>> :
                    n \in {"Downtown"}, v \in ConcernValues}

ConcernsJson ==
    {JsonText("concerns", es) : es \in ConcernEntries}
        \cup OtherJson \cup {JsonText("array", <<>>)}

ConcernsTexts == TextsAround(ConcernsJson)

\* let concernsMap = {}
NoConcerns == [kind |-> "object", entries |-> EmptyObject]

RECURSIVE EntriesObject(_, _)
EntriesObject(es, o) ==
    IF es = <<>> THEN o
    ELSE EntriesObject(Tail(es), Put(o, Head(es).neighborhood, Head(es).value))

\* concernsText.replace(fences).trim(); try { concernsMap = JSON.parse(...) }
\* catch { warn }: the map stays {} when the text does not parse, and is
\* whatever value the text denotes when it does
ParseConcerns(text) ==
    LET parsed == JSONParse(StripFences(text))
    IN  CASE ~parsed.ok -> NoConcerns
          [] parsed.type = "concerns" ->
                 [kind |-> "object", entries |-> EntriesObject(parsed.items, EmptyObject)]
          [] parsed.type \in {"object", "array"} -> NoConcerns
          [] parsed.type = "null" -> [kind |-> "null", entries |-> EmptyObject]
          [] OTHER -> [kind |-> "primitive", entries |-> EmptyObject]

\* concernsMap[key]: undefined for a missing key and for any key of a number
ConcernsOf(cm, key) ==
    IF cm.kind = "object" /\ Has(cm.entries, key) THEN Get(cm.entries, key)
    ELSE Undefined

\* concernsMap[key] = concerns: a property set on a number is dropped
SetConcerns(cm, key, concerns) ==
    IF cm.kind = "object"
    THEN [cm EXCEPT !.entries = Put(cm.entries, key, ConcernList(concerns))]
    ELSE cm

\* !concernsMap[key] || concernsMap[key].length === 0
LacksConcerns(value) ==
    \/ value.kind = "undefined"
    \/ value.kind = "list" /\ Len(value.items) = 0

\* the concerns generated from the neighborhood's own data
GeneratedConcerns(n, needed, redditData) ==
    LET concerns ==
            (IF n.totalAmenities < 5
             THEN <<"Limited number of requested amenities nearby">> ELSE <<>>)
            \o (IF n.amenityTypes < Len(needed)
                THEN <<"Not all requested amenity types available in this neighborhood">>
                ELSE <<>>)
            \o (IF Len(redditData) = 0
                THEN <<"Limited community feedback available">> ELSE <<>>)
    IN  IF Len(concerns) = 0
        THEN <<"Research more on community forums and local resources">>
        ELSE concerns

\* the variant that leaves a neighborhood without generated concerns
FallbackConcernsNone(cm, top, needed, redditData) == cm

\* scoredNeighborhoods.slice(0, 5).forEach(n => { if (...) {...} })
RECURSIVE FallbackConcerns(_, _, _, _)
FallbackConcerns(cm, top, needed, redditData) ==
    IF top = <<>> THEN cm
    ELSE LET n == Head(top)
             filled == IF LacksConcerns(ConcernsOf(cm, n.neighborhood))
                       THEN SetConcerns(cm, n.neighborhood,
                                        GeneratedConcerns(n, needed, redditData))
                       ELSE cm
         IN  FallbackConcerns(filled, Tail(top), needed, redditData)

\* concerns: concernsMap[n.neighborhood] || []
ConcernsField(cm, key) ==
    IF ConcernsOf(cm, key).kind = "undefined" THEN ConcernList(<<>>)
    ELSE ConcernsOf(cm, key)

\* ---- amenity-first: the recommendations of the response ----

TopRecommendationsAll(scored, cm) ==
    [i \in 1..Len(scored) |->
        [neighborhood     |-> scored[i].neighborhood,
         concerns         |-> ConcernsField(cm, scored[i].neighborhood),
         amenityBreakdown |-> scored[i].amenityCounts]]

\* scoredNeighborhoods.slice(0, 5).map(n => ({neighborhood, ...}))
TopRecommendations(scored, cm) ==
    LET top == slice(scored, 5)
    IN  [i \in 1..Len(top) |->
            [neighborhood     |-> top[i].neighborhood,
             concerns         |-> ConcernsField(cm, top[i].neighborhood),
             amenityBreakdown |-> top[i].amenityCounts]]

\* ---- the handler as a process: one step per awaited call ----

\* error.message of the errors the handlers can send
RequiredMessage == "City and preferences are required"

NoNeighborhoodsMessage == "No neighborhoods found with requested amenities"

ModelCallFailed == "model request failed"

TemporalDeadZone == "Cannot access 'redditData' before initialization"

TypeErrorMessage == "TypeError"

SyntaxErrorMessage == "SyntaxError"

\* variables of the stepwise scorer and of the stand-alone filter, which the
\* handlers do not use
handlerIdleVars == <<typeIndex, amenities, neighborhoodScores, posts,
                     filterText, filterOutcome>>

HandlerInit ==
    /\ pc = "request"
    /\ handler \in Handlers
    /\ request \in Requests
    /\ provider = NoProvider
    /\ specificBrands = EmptyObject
    /\ redditQueries = [iterable |-> TRUE, queries |-> <<>>]
    /\ redditPosts = <<>>
    /\ qualitativeScores = EmptyObject
    /\ concernsMap = NoConcerns
    /\ recommendations = <<>>
    /\ mapData = EmptyMapData
    /\ response = NotSent
    /\ filteredPosts = <<>>
    /\ filterCalls = 0
    /\ mapIndex = 0
    /\ IdleScorer
    /\ IdleFilter
    /\ IdleScraper
    /\ IdleLookup

\* res.status(...).json(...) or res.json(...): the handler is done
RespondWithoutReturn(status, body) ==
    /\ response' = [Sent(status, body) EXCEPT !.sends = response.sends + 1]
    /\ pc' = pc

Respond(status, body) ==
    /\ response' = [Sent(status, body) EXCEPT !.sends = response.sends + 1]
    /\ pc' = "responded"

\* the variant that requires the city only
MissingFieldCityOnly(req) == req.city = ""

\* !city || !preferences: a missing field reads as undefined, falsy like ""
MissingField(req) == req.city = "" \/ req.preferences = ""

\* if (!city || !preferences) return res.status(400)...
ValidateRequest ==
    /\ pc = "request"
    /\ IF MissingField(request)
       THEN Respond(400, RequiredMessage)
       ELSE /\ pc' = IF handler = "amenityFirst" THEN "extract" ELSE "parse"
            /\ UNCHANGED response
    /\ UNCHANGED <<qualitativeScores, concernsMap, handler,
                   request, provider, specificBrands, redditQueries,
                   redditPosts, recommendations, mapData>>
    /\ UNCHANGED scorerVars
    /\ UNCHANGED filterVars
    /\ UNCHANGED scraperVars
    /\ UNCHANGED amenityText
    /\ UNCHANGED lookupVars
    /\ UNCHANGED <<postFilterVars, mapIndex>>

\* amenity-first, step 1: the amenity extraction call and its parse
ExtractAmenities ==
    /\ pc = "extract"
    /\ \E reply \in ModelReplies(AmenityTexts) :
           IF ~reply.ok
           THEN /\ Respond(500, ModelCallFailed)
                /\ UNCHANGED <<amenitiesNeeded, specificBrands>>
           ELSE /\ amenitiesNeeded' = ParseAmenities(reply.text).amenitiesNeeded
                /\ specificBrands' = ParseAmenities(reply.text).specificBrands
                /\ pc' = "score"
                /\ UNCHANGED response
    /\ UNCHANGED <<qualitativeScores, concernsMap, handler,
                   request, provider, redditQueries, redditPosts,
                   recommendations, mapData>>
    /\ UNCHANGED <<neighborhoodAmenities, scoredNeighborhoods, located>>
    /\ UNCHANGED handlerIdleVars
    /\ UNCHANGED scraperVars
    /\ UNCHANGED amenityText
    /\ UNCHANGED lookupVars
    /\ UNCHANGED <<postFilterVars, mapIndex>>

\* amenity-first, step 2 with amenities: the call of
\* scoreNeighborhoodsByAmenities, which then runs against the provider
ScoreNeighborhoods ==
    /\ pc = "score"
    /\ Len(amenitiesNeeded) > 0
    /\ provider' \in Providers
    /\ pc' = "locate"
    /\ UNCHANGED <<qualitativeScores, concernsMap, handler,
                   request, specificBrands, redditQueries,
                   redditPosts, recommendations, mapData, response>>
    /\ UNCHANGED scorerVars
    /\ UNCHANGED filterVars
    /\ UNCHANGED scraperVars
    /\ UNCHANGED amenityText
    /\ UNCHANGED lookupVars
    /\ UNCHANGED <<postFilterVars, mapIndex>>

\* the scorer has returned: if (scoredNeighborhoods.length === 0) return 400
NeighborhoodsScored ==
    /\ pc = "scored"
    /\ handler = "amenityFirst"
    /\ IF Len(scoredNeighborhoods) = 0
       THEN Respond(400, NoNeighborhoodsMessage)
       ELSE /\ pc' = "qualitative"
            /\ UNCHANGED response
    /\ UNCHANGED <<qualitativeScores, concernsMap, handler,
                   request, provider, specificBrands, redditQueries,
                   redditPosts, recommendations, mapData>>
    /\ UNCHANGED scorerVars
    /\ UNCHANGED filterVars
    /\ UNCHANGED scraperVars
    /\ UNCHANGED amenityText
    /\ UNCHANGED lookupVars
    /\ UNCHANGED <<postFilterVars, mapIndex>>

\* amenity-first, step 2 without amenities: the prompt reads redditData,
\* a const declared further down, so building it throws and the outer catch
\* answers 500
NoAmenitiesBranch ==
    /\ pc = "score"
    /\ Len(amenitiesNeeded) = 0
    /\ Respond(500, TemporalDeadZone)
    /\ UNCHANGED <<qualitativeScores, concernsMap, handler,
                   request, provider, specificBrands, redditQueries,
                   redditPosts, recommendations, mapData>>
    /\ UNCHANGED scorerVars
    /\ UNCHANGED filterVars
    /\ UNCHANGED scraperVars
    /\ UNCHANGED amenityText
    /\ UNCHANGED lookupVars
    /\ UNCHANGED <<postFilterVars, mapIndex>>

\* amenity-first, step 3: the qualitative query call and its parse
QualitativeQueries ==
    /\ pc = "qualitative"
    /\ \E reply \in ModelReplies(QueryTexts) :
           IF ~reply.ok
           THEN /\ Respond(500, ModelCallFailed)
                /\ UNCHANGED redditQueries
           ELSE /\ redditQueries' = ParseQualitativeQueries(reply.text)
                /\ pc' = "scrape"
                /\ UNCHANGED response
    /\ UNCHANGED <<qualitativeScores, concernsMap, handler,
                   request, provider, specificBrands, redditPosts,
                   recommendations, mapData>>
    /\ UNCHANGED scorerVars
    /\ UNCHANGED filterVars
    /\ UNCHANGED scraperVars
    /\ UNCHANGED amenityText
    /\ UNCHANGED lookupVars
    /\ UNCHANGED <<postFilterVars, mapIndex>>

\* the simpler handlers and the debug handler, step 1: the parsing call and
\* JSON.parse(parsingText); the two recommendation handlers then log
\* parsedData.preferences, which throws on null, while the debug handler
\* reads parsedData only after discoverSubreddits has returned
ParsePreferencesCall ==
    /\ pc = "parse"
    /\ \E reply \in ModelReplies(ParsedDataTexts) :
           IF ~reply.ok
           THEN /\ Respond(500, ModelCallFailed)
                /\ UNCHANGED redditQueries
           ELSE LET parsed == ParsePreferences(reply.text)
                IN  CASE parsed.throws = "SyntaxError" ->
                            /\ Respond(500, SyntaxErrorMessage)
                            /\ UNCHANGED redditQueries
                      [] parsed.throws = "none" /\ parsed.isNull
                            /\ handler # "debug" ->
                            /\ Respond(500, TypeErrorMessage)
                            /\ UNCHANGED redditQueries
                      [] OTHER ->
                            /\ redditQueries' = [iterable |-> parsed.iterable,
                                                 queries  |-> parsed.queries]
                            /\ pc' = IF handler = "debug"
                                     THEN "forums" ELSE "scrape"
                            /\ UNCHANGED response
    /\ UNCHANGED <<qualitativeScores, concernsMap, handler,
                   request, provider, specificBrands, redditPosts,
                   recommendations, mapData>>
    /\ UNCHANGED scorerVars
    /\ UNCHANGED filterVars
    /\ UNCHANGED scraperVars
    /\ UNCHANGED amenityText
    /\ UNCHANGED lookupVars
    /\ UNCHANGED <<postFilterVars, mapIndex>>

\* const redditPosts = await scrapeReddit(redditQueries, city), in the debug
\* handler scrapeReddit(parsedData.redditQueries, city, subreddits); queries
\* that are no list make queries.length or the read of parsedData throw
ScrapeReddit ==
    /\ pc = "scrape"
    /\ IF ~redditQueries.iterable
       THEN /\ Respond(500, TypeErrorMessage)
            /\ UNCHANGED redditPosts
       ELSE /\ redditPosts' \in ScrapedPosts(redditQueries.queries)
            /\ pc' = "filter"
            /\ UNCHANGED response
    /\ UNCHANGED <<qualitativeScores, concernsMap, handler,
                   request, provider, specificBrands, redditQueries,
                   recommendations, mapData>>
    /\ UNCHANGED scorerVars
    /\ UNCHANGED filterVars
    /\ UNCHANGED scraperVars
    /\ UNCHANGED amenityText
    /\ UNCHANGED lookupVars
    /\ UNCHANGED <<postFilterVars, mapIndex>>

AfterFilter ==
    CASE handler = "amenityFirst" -> "scoring"
      [] handler = "debug" -> "report"
      [] OTHER -> "analyze"

\* the variant that calls the filter whatever the retrieval returned
FilterPostsAlways ==
    /\ pc = "filter"
    /\ filterCalls' = filterCalls + 1
    /\ \E reply \in ModelReplies(FilterTexts) :
           IF ~reply.ok
           THEN /\ Respond(500, ModelCallFailed)
                /\ UNCHANGED filteredPosts
           ELSE IF filterRelevantPosts(redditPosts, reply.text) = Threw
                THEN /\ Respond(500, TypeErrorMessage)
                     /\ UNCHANGED filteredPosts
                ELSE /\ filteredPosts' =
                            filterRelevantPosts(redditPosts, reply.text).value
                     /\ pc' = AfterFilter
                     /\ UNCHANGED response
    /\ UNCHANGED <<qualitativeScores, concernsMap, handler,
                   request, provider, specificBrands, redditQueries,
                   redditPosts, recommendations, mapData>>
    /\ UNCHANGED scorerVars
    /\ UNCHANGED filterVars
    /\ UNCHANGED scraperVars
    /\ UNCHANGED amenityText
    /\ UNCHANGED lookupVars
    /\ UNCHANGED mapIndex

\* redditPosts.length > 0 ? await filterRelevantPosts(...) : []
FilterPosts ==
    /\ pc = "filter"
    /\ IF redditPosts = <<>>
       THEN /\ filteredPosts' = <<>>
            /\ pc' = AfterFilter
            /\ UNCHANGED <<response, filterCalls>>
       ELSE /\ filterCalls' = filterCalls + 1
            /\ \E reply \in ModelReplies(FilterTexts) :
                   IF ~reply.ok
                   THEN /\ Respond(500, ModelCallFailed)
                        /\ UNCHANGED filteredPosts
                   ELSE IF filterRelevantPosts(redditPosts, reply.text) = Threw
                        THEN /\ Respond(500, TypeErrorMessage)
                             /\ UNCHANGED filteredPosts
                        ELSE /\ filteredPosts' =
                                    filterRelevantPosts(redditPosts, reply.text).value
                             /\ pc' = AfterFilter
                             /\ UNCHANGED response
    /\ UNCHANGED <<qualitativeScores, concernsMap, handler,
                   request, provider, specificBrands, redditQueries,
                   redditPosts, recommendations, mapData>>
    /\ UNCHANGED scorerVars
    /\ UNCHANGED filterVars
    /\ UNCHANGED scraperVars
    /\ UNCHANGED amenityText
    /\ UNCHANGED lookupVars
    /\ UNCHANGED mapIndex

\* amenity-first, step 4: the qualitative scoring call and the parse of its
\* reply; nothing later reads qualitativeScores
QualitativeScoring ==
    /\ pc = "scoring"
    /\ \E reply \in ModelReplies(ScoreTexts) :
           IF ~reply.ok
           THEN /\ Respond(500, ModelCallFailed)
                /\ UNCHANGED qualitativeScores
           ELSE /\ qualitativeScores' = ParseQualitativeScores(reply.text)
                /\ pc' = "concerns"
                /\ UNCHANGED response
    /\ UNCHANGED <<concernsMap, handler, request, provider, specificBrands,
                   redditQueries, redditPosts, recommendations, mapData>>
    /\ UNCHANGED scorerVars
    /\ UNCHANGED filterVars
    /\ UNCHANGED scraperVars
    /\ UNCHANGED amenityText
    /\ UNCHANGED lookupVars
    /\ UNCHANGED <<postFilterVars, mapIndex>>

\* amenity-first: the concerns call, the parse of its reply, the fallback
\* loop and, in the same turn, recommendations =
\* scoredNeighborhoods.slice(0, 5).map(...); a reply that parses to null
\* makes concernsMap[n.neighborhood] throw
IdentifyConcerns ==
    /\ pc = "concerns"
    /\ \E reply \in ModelReplies(ConcernsTexts) :
           IF ~reply.ok
           THEN /\ Respond(500, ModelCallFailed)
                /\ UNCHANGED <<concernsMap, recommendations>>
           ELSE IF ParseConcerns(reply.text).kind = "null"
           THEN /\ Respond(500, TypeErrorMessage)
                /\ UNCHANGED <<concernsMap, recommendations>>
           ELSE LET filled == FallbackConcerns(ParseConcerns(reply.text),
                                               slice(scoredNeighborhoods, 5),
                                               amenitiesNeeded, redditPosts)
                IN  /\ concernsMap' = filled
                    /\ recommendations' =
                           TopRecommendations(scoredNeighborhoods, filled)
                    /\ pc' = "map"
                    /\ UNCHANGED response
    /\ UNCHANGED <<qualitativeScores, handler, request, provider,
                   specificBrands, redditQueries, redditPosts, mapData>>
    /\ UNCHANGED scorerVars
    /\ UNCHANGED filterVars
    /\ UNCHANGED scraperVars
    /\ UNCHANGED amenityText
    /\ UNCHANGED lookupVars
    /\ UNCHANGED <<postFilterVars, mapIndex>>

\* the end of the handler's try block: in the amenity-first version the
\* per-neighborhood subsets are added, then res.json
SendMapData(md) ==
    /\ mapData' =
           IF handler = "amenityFirst"
           THEN [md EXCEPT !.neighborhoodAmenities =
                    NeighborhoodSubsets(recommendations, neighborhoodAmenities,
                                        amenitiesNeeded, EmptyObject)]
           ELSE md
    /\ Respond(200, "recommendations")

\* for (const amenityType of amenitiesNeeded) is entered with mapData md:
\* the first display lookup is awaited, or with no type the loop is over
StartDisplay(md, needed) ==
    IF needed = <<>>
    THEN /\ SendMapData(md)
         /\ UNCHANGED mapIndex
    ELSE /\ mapData' = md
         /\ mapIndex' = 1
         /\ pc' = "display"
         /\ UNCHANGED response

\* await getCityCoordinates(city) returns.  Amenity-first and post-text-first
\* go on to build mapData (post-text-first after reading the amenity types
\* off the preferences) and enter the display loop; the boundaries version
\* keeps cityCoords, held here in mapData.cityCoordinates, and makes the
\* amenity-type model call
GetCityCoordinates ==
    /\ pc = "map"
    /\ \E cityFound \in BOOLEAN :
           IF handler = "amenityFirst"
           THEN /\ StartDisplay([cityCoordinates |-> CityCoordinates(cityFound),
                                 amenities |-> EmptyObject,
                                 neighborhoodAmenities |-> EmptyObject],
                                amenitiesNeeded)
                /\ UNCHANGED amenitiesNeeded
           ELSE IF handler = "postTextFirst"
           THEN /\ amenitiesNeeded' = KeywordAmenities(request.preferences)
                /\ StartDisplay([cityCoordinates |-> CityCoordinates(cityFound),
                                 amenities |-> EmptyObject],
                                KeywordAmenities(request.preferences))
           ELSE /\ mapData' = [cityCoordinates |-> CityCoordinates(cityFound),
                               amenities |-> EmptyObject,
                               neighborhoods |-> <<>>]
                /\ pc' = "types"
                /\ UNCHANGED <<amenitiesNeeded, response, mapIndex>>
    /\ UNCHANGED <<qualitativeScores, concernsMap, handler,
                   request, provider, specificBrands, redditQueries,
                   redditPosts, recommendations>>
    /\ UNCHANGED <<typeIndex, amenities, neighborhoodScores,
                   neighborhoodAmenities, scoredNeighborhoods, located>>
    /\ UNCHANGED filterVars
    /\ UNCHANGED scraperVars
    /\ UNCHANGED amenityText
    /\ UNCHANGED lookupVars
    /\ UNCHANGED postFilterVars

\* one await getAmenityCoordinates(...) of the display loop returns and
\* mapData.amenities[amenityType] is written (in the amenity-first version
\* with limit 10 and the brand names of the type); after the last type the
\* handler runs on to res.json
DisplayLookup ==
    /\ pc = "display"
    /\ LET amenityType == amenitiesNeeded[mapIndex]
           specificNames == IF handler = "amenityFirst"
                            THEN BrandNames(specificBrands, amenityType)
                            ELSE <<>>
       IN  \E met \in LookupReplies(specificNames) :
               LET amenityCoords ==
                       IF handler = "amenityFirst"
                       THEN getAmenityCoordinates(met, amenityType, 10,
                                                  specificNames)
                       ELSE getAmenityCoordinatesSimple(met, amenityType, 5)
                   md == [mapData EXCEPT
                             !.amenities = Put(@, amenityType, amenityCoords)]
               IN  IF mapIndex < Len(amenitiesNeeded)
                   THEN /\ mapData' = md
                        /\ mapIndex' = mapIndex + 1
                        /\ UNCHANGED <<pc, response>>
                   ELSE /\ SendMapData(md)
                        /\ UNCHANGED mapIndex
    /\ UNCHANGED <<qualitativeScores, concernsMap, handler,
                   request, provider, specificBrands, redditQueries,
                   redditPosts, recommendations>>
    /\ UNCHANGED scorerVars
    /\ UNCHANGED filterVars
    /\ UNCHANGED scraperVars
    /\ UNCHANGED amenityText
    /\ UNCHANGED lookupVars
    /\ UNCHANGED postFilterVars

\* the simpler handlers, step 3: the analysis call, the search for a JSON
\* object in its text, the fallback response
AnalyzeNeighborhoods ==
    /\ pc = "analyze"
    /\ \E reply \in ModelReplies(AnalysisTexts) :
           IF ~reply.ok
           THEN /\ Respond(500, ModelCallFailed)
                /\ UNCHANGED recommendations
           ELSE LET analysis == ParseAnalysis(reply.text)
                IN  CASE analysis.outcome = "fallback" ->
                            /\ recommendations' = FallbackRecommendations
                            /\ Respond(200, "fallback")
                      [] analysis.outcome = "throws" ->
                            /\ Respond(500, TypeErrorMessage)
                            /\ UNCHANGED recommendations
                      [] OTHER ->
                            /\ recommendations' = analysis.recs
                            /\ pc' = "map"
                            /\ UNCHANGED response
    /\ UNCHANGED <<qualitativeScores, concernsMap, handler,
                   request, provider, specificBrands, redditQueries,
                   redditPosts, mapData>>
    /\ UNCHANGED scorerVars
    /\ UNCHANGED filterVars
    /\ UNCHANGED scraperVars
    /\ UNCHANGED amenityText
    /\ UNCHANGED lookupVars
    /\ UNCHANGED <<postFilterVars, mapIndex>>

\* boundaries version: the amenity type call, its parse and the join, then
\* the loop over the recommendations is entered (the first boundary lookup
\* is awaited) or, with no recommendation, the display loop
ExtractAmenityTypes ==
    /\ pc = "types"
    /\ \E reply \in ModelReplies(TypeTexts) :
           IF ~reply.ok
           THEN /\ Respond(500, ModelCallFailed)
                /\ UNCHANGED <<amenitiesNeeded, mapData, mapIndex>>
           ELSE LET parsed == ParseAmenityTypes(reply.text)
                IN  IF parsed.throws
                    THEN /\ Respond(500, TypeErrorMessage)
                         /\ UNCHANGED <<amenitiesNeeded, mapData, mapIndex>>
                    ELSE /\ amenitiesNeeded' = parsed.amenitiesNeeded
                         /\ IF recommendations = <<>>
                            THEN StartDisplay(mapData, parsed.amenitiesNeeded)
                            ELSE /\ mapIndex' = 1
                                 /\ pc' = "boundaries"
                                 /\ UNCHANGED <<mapData, response>>
    /\ UNCHANGED <<qualitativeScores, concernsMap, handler,
                   request, provider, specificBrands, redditQueries,
                   redditPosts, recommendations>>
    /\ UNCHANGED <<neighborhoodAmenities, scoredNeighborhoods, located>>
    /\ UNCHANGED handlerIdleVars
    /\ UNCHANGED scraperVars
    /\ UNCHANGED amenityText
    /\ UNCHANGED lookupVars
    /\ UNCHANGED postFilterVars

\* boundaries version: one await getNeighborhoodBoundaries(rec.neighborhood,
\* city) returns a polygon or null (a failure inside it gives null); a
\* polygon is pushed, written here as the neighborhood it outlines; after
\* the last recommendation the display loop is entered
GetNeighborhoodBoundaries ==
    /\ pc = "boundaries"
    /\ \E outlined \in BOOLEAN :
           LET md == IF outlined
                     THEN [mapData EXCEPT !.neighborhoods =
                              Append(@, recommendations[mapIndex].neighborhood)]
                     ELSE mapData
           IN  IF mapIndex < Len(recommendations)
               THEN /\ mapData' = md
                    /\ mapIndex' = mapIndex + 1
                    /\ UNCHANGED <<pc, response>>
               ELSE StartDisplay(md, amenitiesNeeded)
    /\ UNCHANGED <<qualitativeScores, concernsMap, handler,
                   request, provider, specificBrands, redditQueries,
                   redditPosts, recommendations>>
    /\ UNCHANGED scorerVars
    /\ UNCHANGED filterVars
    /\ UNCHANGED scraperVars
    /\ UNCHANGED amenityText
    /\ UNCHANGED lookupVars
    /\ UNCHANGED postFilterVars

HandlerNext ==
    \/ ValidateRequest
    \/ ExtractAmenities
    \/ ScoreNeighborhoods
    \/ LocateAmenities
    \/ ResolveAndAttribute
    \/ NextAmenityType
    \/ ReturnScored
    \/ NeighborhoodsScored
    \/ NoAmenitiesBranch
    \/ QualitativeQueries
    \/ ParsePreferencesCall
    \/ ScrapeReddit
    \/ FilterPosts
    \/ QualitativeScoring
    \/ IdentifyConcerns
    \/ GetCityCoordinates
    \/ DisplayLookup
    \/ AnalyzeNeighborhoods
    \/ ExtractAmenityTypes
    \/ GetNeighborhoodBoundaries

SpecHandler == HandlerInit /\ [][HandlerNext]_vars

----------------------------------------------------------------------------
(* POST /api/debug-recommendations and POST /api/test-scrape; the server *)

DiagnosticHandlers == {"debug", "testScrape"}

QueriesRequiredMessage == "Queries array is required"

\* req.body.queries of a test-scrape request: absent, a string, an array
NoQueries == [kind |-> "missing", queries |-> <<>>]

QueryString == [kind |-> "string", queries |-> <<>>]

QueryArray(queries) == [kind |-> "array", queries |-> queries]

ScrapeBodies ==
    {NoQueries, QueryString, QueryArray(<<>>), QueryArray(<<"rent">>)}

\* the variant that accepts whatever is not missing
QueriesMissingOnly(body) == body.kind = "missing"

\* !queries || !Array.isArray(queries)
QueriesMissing(body) == body.kind # "array"

\* a request to one of the POST handlers; the handlers of /api/recommendations
\* and of /api/debug-recommendations start by reading city and preferences
ServerInit ==
    /\ handler \in Handlers \cup DiagnosticHandlers
    /\ pc = IF handler = "testScrape" THEN "test_request" ELSE "request"
    /\ request \in IF handler = "testScrape"
                   THEN {[city |-> "", preferences |-> ""]}
                   ELSE Requests
    /\ provider = NoProvider
    /\ specificBrands = EmptyObject
    /\ redditQueries = [iterable |-> TRUE, queries |-> <<>>]
    /\ redditPosts = <<>>
    /\ qualitativeScores = EmptyObject
    /\ concernsMap = NoConcerns
    /\ recommendations = <<>>
    /\ mapData = EmptyMapData
    /\ response = NotSent
    /\ filteredPosts = <<>>
    /\ filterCalls = 0
    /\ mapIndex = 0
    /\ IdleScorer
    /\ IdleFilter
    /\ IdleScraper
    /\ IdleLookup

\* debug-recommendations: const subreddits = await discoverSubreddits(city),
\* which answers with a list whatever the search gives; parsedData is read
\* only after it has returned
DiscoverSubredditsCall ==
    /\ pc = "forums"
    /\ \E resp \in SearchResponses :
           searchSubreddits' =
               GivenSubreddits(discoverSubreddits(request.city, resp).value)
    /\ pc' = "scrape"
    /\ UNCHANGED <<scrapeCity, forumSearch, scrapeQueries, queryIndex,
                   searchReplies, scrapedPosts>>
    /\ UNCHANGED handlerVars
    /\ UNCHANGED scorerVars
    /\ UNCHANGED filterVars
    /\ UNCHANGED amenityText
    /\ UNCHANGED lookupVars
    /\ UNCHANGED <<postFilterVars, mapIndex>>

\* debug-recommendations: res.json({city, ..., filteredPosts, ...})
DebugReport ==
    /\ pc = "report"
    /\ Respond(200, "debug")
    /\ UNCHANGED <<qualitativeScores, concernsMap, handler,
                   request, provider, specificBrands, redditQueries,
                   redditPosts, recommendations, mapData>>
    /\ UNCHANGED scorerVars
    /\ UNCHANGED filterVars
    /\ UNCHANGED scraperVars
    /\ UNCHANGED amenityText
    /\ UNCHANGED lookupVars
    /\ UNCHANGED <<postFilterVars, mapIndex>>

\* test-scrape: if (!queries || !Array.isArray(queries)) return res.status(400)...
ValidateScrapeRequest ==
    /\ pc = "test_request"
    /\ \E body \in ScrapeBodies :
           IF QueriesMissing(body)
           THEN /\ Respond(400, QueriesRequiredMessage)
                /\ UNCHANGED redditQueries
           ELSE /\ redditQueries' = [iterable |-> TRUE, queries |-> body.queries]
                /\ pc' = "test_scrape"
                /\ UNCHANGED response
    /\ UNCHANGED <<qualitativeScores, concernsMap, handler,
                   request, provider, specificBrands,
                   redditPosts, recommendations, mapData>>
    /\ UNCHANGED scorerVars
    /\ UNCHANGED filterVars
    /\ UNCHANGED scraperVars
    /\ UNCHANGED amenityText
    /\ UNCHANGED lookupVars
    /\ UNCHANGED <<postFilterVars, mapIndex>>

\* test-scrape: const posts = await scrapeReddit(queries); res.json({...})
TestScrape ==
    /\ pc = "test_scrape"
    /\ redditPosts' \in ScrapedPosts(redditQueries.queries)
    /\ Respond(200, "posts")
    /\ UNCHANGED <<qualitativeScores, concernsMap, handler,
                   request, provider, specificBrands, redditQueries,
                   recommendations, mapData>>
    /\ UNCHANGED scorerVars
    /\ UNCHANGED filterVars
    /\ UNCHANGED scraperVars
    /\ UNCHANGED amenityText
    /\ UNCHANGED lookupVars
    /\ UNCHANGED <<postFilterVars, mapIndex>>

ServerNext ==
    \/ HandlerNext
    \/ DiscoverSubredditsCall
    \/ DebugReport
    \/ ValidateScrapeRequest
    \/ TestScrape

SpecServer == ServerInit /\ [][ServerNext]_vars

----------------------------------------------------------------------------
(* The amenity extraction of the amenity-first handler, its reply kept *)

ExtractInit ==
    /\ HandlerInit
    /\ handler = "amenityFirst"

\* const amenityResponse = await openai.chat.completions.create(...)
AmenityResponse ==
    /\ pc = "extract"
    /\ \E reply \in ModelReplies(AmenityTexts) :
           IF ~reply.ok
           THEN /\ Respond(500, ModelCallFailed)
                /\ UNCHANGED amenityText
           ELSE /\ amenityText' = Received(reply.text)
                /\ pc' = "extract_parse"
                /\ UNCHANGED response
    /\ UNCHANGED <<qualitativeScores, concernsMap, handler,
                   request, provider, specificBrands,
                   redditQueries, redditPosts, recommendations, mapData>>
    /\ UNCHANGED scorerVars
    /\ UNCHANGED filterVars
    /\ UNCHANGED scraperVars
    /\ UNCHANGED lookupVars
    /\ UNCHANGED <<postFilterVars, mapIndex>>

\* amenityText.replace(fences).trim(); try { JSON.parse ... } catch { defaults }
ParseAmenityResponse ==
    /\ pc = "extract_parse"
    /\ amenitiesNeeded' = ParseAmenities(amenityText.text).amenitiesNeeded
    /\ specificBrands' = ParseAmenities(amenityText.text).specificBrands
    /\ pc' = "score"
    /\ UNCHANGED <<qualitativeScores, concernsMap, handler,
                   request, provider, redditQueries,
                   redditPosts, recommendations, mapData, response>>
    /\ UNCHANGED <<neighborhoodAmenities, scoredNeighborhoods, located>>
    /\ UNCHANGED handlerIdleVars
    /\ UNCHANGED scraperVars
    /\ UNCHANGED amenityText
    /\ UNCHANGED lookupVars
    /\ UNCHANGED <<postFilterVars, mapIndex>>

ExtractNext ==
    \/ ValidateRequest
    \/ AmenityResponse
    \/ ParseAmenityResponse

SpecExtract == ExtractInit /\ [][ExtractNext]_vars

----------------------------------------------------------------------------
(* getAllAmenityCoordinates as a process: one step per awaited call *)

LookupInit ==
    /\ pc = "lookup_geocode"
    /\ lookupNames \in LookupNames
    /\ lookupIndex = 0
    /\ nextPageToken = NULL
    /\ allPlaces = <<>>
    /\ nearbyCalls = <<>>
    /\ lookupResult = NotReturned
    /\ geocodeReply = NoReply
    /\ resolved = NotReturned
    /\ lookups = <<>>
    /\ IdleScorer
    /\ IdleFilter
    /\ IdleHandler
    /\ IdleScraper

\* the amenityType argument: the scorer's current type, 'gym' when the
\* lookup runs alone
LookupType ==
    IF amenitiesNeeded = <<>> THEN "gym" ELSE amenitiesNeeded[typeIndex]

\* what placesNearby may answer to one request
NearbyPageReplies ==
    IF amenitiesNeeded = <<>> THEN PageReplies ELSE ScorerPageReplies

\* const cityCoords = await getCityCoordinates(city); if (!cityCoords) return []
GeocodeCity ==
    /\ pc = "lookup_geocode"
    /\ \E found \in BOOLEAN :
           IF ~found
           THEN /\ lookupResult' = Returned(<<>>)
                /\ pc' = "lookup_done"
           ELSE /\ pc' = IF Len(lookupNames) > 0 THEN "lookup_brands"
                         ELSE "lookup_pages"
                /\ UNCHANGED lookupResult
    /\ UNCHANGED <<lookupNames, lookupIndex, nextPageToken, allPlaces,
                   nearbyCalls, geocodeReply, resolved, lookups>>
    /\ UNCHANGED <<scorerVars, filterVars, handlerVars, scraperVars, amenityText>>
    /\ UNCHANGED <<postFilterVars, mapIndex>>

\* one pass of for (const brandName of specificNames) { try {...} catch {...} }
BrandQuery ==
    /\ pc = "lookup_brands"
    /\ \E reply \in NearbyPageReplies :
           /\ nearbyCalls' =
                  Append(nearbyCalls,
                         NearbyCall(lookupNames[lookupIndex + 1], NULL, reply))
           /\ allPlaces' =
                  AfterBrandQuery(allPlaces, lookupNames[lookupIndex + 1], reply)
    /\ lookupIndex' = lookupIndex + 1
    /\ pc' = IF lookupIndex + 1 < Len(lookupNames) THEN "lookup_brands"
             ELSE "lookup_map"
    /\ UNCHANGED <<lookupNames, nextPageToken, lookupResult, geocodeReply,
                   resolved, lookups>>
    /\ UNCHANGED <<scorerVars, filterVars, handlerVars, scraperVars, amenityText>>
    /\ UNCHANGED <<postFilterVars, mapIndex>>

\* one pass of for (let page = 0; page < 3; page++) { try {...} catch { break } }
FetchPage ==
    /\ pc = "lookup_pages"
    /\ lookupIndex < PageCap
    /\ \E reply \in NearbyPageReplies :
           /\ nearbyCalls' =
                  Append(nearbyCalls, NearbyCall("", nextPageToken, reply))
           /\ IF reply.kind = "failed"
              THEN /\ pc' = "lookup_map"
                   /\ UNCHANGED <<allPlaces, nextPageToken, lookupIndex>>
              ELSE /\ allPlaces' = allPlaces \o reply.results
                   /\ nextPageToken' = reply.token
                   /\ IF reply.token = NULL
                      THEN /\ pc' = "lookup_map"
                           /\ UNCHANGED lookupIndex
                      ELSE /\ lookupIndex' = lookupIndex + 1
                           /\ pc' = IF lookupIndex + 1 < PageCap
                                    THEN "lookup_pages" ELSE "lookup_map"
    /\ UNCHANGED <<lookupNames, lookupResult, geocodeReply, resolved, lookups>>
    /\ UNCHANGED <<scorerVars, filterVars, handlerVars, scraperVars, amenityText>>
    /\ UNCHANGED <<postFilterVars, mapIndex>>

\* return allPlaces.map(place => ({name, lat, lng, type}))
ReturnPlaces ==
    /\ pc = "lookup_map"
    /\ lookupResult' = Returned(MapPlaces(allPlaces, LookupType))
    /\ pc' = "lookup_done"
    /\ UNCHANGED <<lookupNames, lookupIndex, nextPageToken, allPlaces,
                   nearbyCalls, geocodeReply, resolved, lookups>>
    /\ UNCHANGED <<scorerVars, filterVars, handlerVars, scraperVars, amenityText>>
    /\ UNCHANGED <<postFilterVars, mapIndex>>

LookupNext ==
    \/ GeocodeCity
    \/ BrandQuery
    \/ FetchPage
    \/ ReturnPlaces

SpecLookup == LookupInit /\ [][LookupNext]_vars

----------------------------------------------------------------------------
(* scoreNeighborhoodsByAmenities with its lookups made call by call *)

\* the specificBrands argument
LocateBrands ==
    {EmptyObject, Put(EmptyObject, "gym", <<"yoga loft", "crunch">>)}

\* a reverse geocoder that spreads the places over the neighborhoods
SpreadProvider ==
    [geocode |-> TRUE, count |-> MaxResults, pages |-> 1, pattern |-> "spread"]

LocateInit ==
    /\ pc = "locate"
    /\ amenitiesNeeded \in AmenityLists
    /\ typeIndex = 1
    /\ amenities = <<>>
    /\ neighborhoodScores = EmptyObject
    /\ neighborhoodAmenities = EmptyObject
    /\ scoredNeighborhoods = <<>>
    /\ located = <<>>
    /\ handler = "none"
    /\ request = [city |-> "", preferences |-> ""]
    /\ provider = SpreadProvider
    /\ specificBrands \in LocateBrands
    /\ redditQueries = [iterable |-> TRUE, queries |-> <<>>]
    /\ redditPosts = <<>>
    /\ qualitativeScores = EmptyObject
    /\ concernsMap = [kind |-> "object", entries |-> EmptyObject]
    /\ recommendations = <<>>
    /\ mapData = [cityCoordinates |-> NULL, amenities |-> EmptyObject]
    /\ response = [status |-> 0, body |-> "none", sends |-> 0]
    /\ filteredPosts = <<>>
    /\ filterCalls = 0
    /\ mapIndex = 0
    /\ IdleFilter
    /\ IdleScraper
    /\ IdleLookup

\* const brandNames = specificBrands[amenityType] || [];
\* getAllAmenityCoordinates(city, amenityType, brandNames) is entered
BeginLookup ==
    /\ pc = "locate"
    /\ typeIndex <= Len(amenitiesNeeded)
    /\ lookupNames' = BrandNames(specificBrands, amenitiesNeeded[typeIndex])
    /\ lookupIndex' = 0
    /\ nextPageToken' = NULL
    /\ allPlaces' = <<>>
    /\ nearbyCalls' = <<>>
    /\ lookupResult' = NotReturned
    /\ pc' = "lookup_geocode"
    /\ UNCHANGED <<geocodeReply, resolved, lookups>>
    /\ UNCHANGED <<scorerVars, filterVars, handlerVars, scraperVars, amenityText>>
    /\ UNCHANGED <<postFilterVars, mapIndex>>

\* const amenities = await getAllAmenityCoordinates(...): the lookup has
\* returned and the attribution loop starts on what it gave
AwaitedLookup ==
    /\ pc = "lookup_done"
    /\ amenities' = lookupResult.value
    /\ lookups' = Append(lookups,
                         [type   |-> amenitiesNeeded[typeIndex],
                          failed |-> \E k \in 1..Len(nearbyCalls) :
                                         nearbyCalls[k].reply.kind = "failed",
                          places |-> lookupResult.value])
    /\ pc' = "attribute"
    /\ UNCHANGED <<amenitiesNeeded, typeIndex, neighborhoodScores,
                   neighborhoodAmenities, scoredNeighborhoods, located>>
    /\ UNCHANGED <<lookupNames, lookupIndex, nextPageToken, allPlaces,
                   nearbyCalls, lookupResult, geocodeReply, resolved>>
    /\ UNCHANGED <<filterVars, handlerVars, scraperVars, amenityText>>
    /\ UNCHANGED <<postFilterVars, mapIndex>>

LocateNext ==
    \/ BeginLookup
    \/ GeocodeCity
    \/ BrandQuery
    \/ FetchPage
    \/ ReturnPlaces
    \/ AwaitedLookup
    \/ ResolveAndAttribute
    \/ NextAmenityType
    \/ ReturnScored

SpecLocate == LocateInit /\ [][LocateNext]_vars

----------------------------------------------------------------------------
(* getNeighborhoodFromCoordinates as a process *)

ResolveInit ==
    /\ pc = "resolve"
    /\ IdleLookup
    /\ IdleScorer
    /\ IdleFilter
    /\ IdleHandler
    /\ IdleScraper

\* one call of getNeighborhoodFromCoordinates(lat, lng): the lookup, then
\* the result; a rejection is caught and gives null
ReverseGeocode ==
    /\ pc = "resolve"
    /\ \E reply \in GeocodeReplies :
           /\ geocodeReply' = reply
           /\ resolved' = Returned(ResolveNeighborhood(reply))
    /\ pc' = "resolved"
    /\ UNCHANGED <<lookupNames, lookupIndex, nextPageToken, allPlaces,
                   nearbyCalls, lookupResult, lookups>>
    /\ UNCHANGED <<scorerVars, filterVars, handlerVars, scraperVars, amenityText>>
    /\ UNCHANGED <<postFilterVars, mapIndex>>

ResolveNext == ReverseGeocode

SpecResolve == ResolveInit /\ [][ResolveNext]_vars

----------------------------------------------------------------------------
(* discoverSubreddits and scrapeReddit as processes *)

DiscoverInit ==
    /\ pc = "discover"
    /\ scrapeCity \in ScrapeCities
    /\ forumSearch = NoSearch
    /\ searchSubreddits = NoSubreddits
    /\ scrapeQueries = <<>>
    /\ queryIndex = 1
    /\ searchReplies = <<>>
    /\ scrapedPosts = <<>>
    /\ amenityText = NoText
    /\ IdleLookup
    /\ IdleScorer
    /\ IdleFilter
    /\ IdleHandler

\* one call of discoverSubreddits(city): the search, then the result
Discover ==
    /\ pc = "discover"
    /\ \E resp \in SearchResponses :
           /\ forumSearch' = resp
           /\ IF discoverSubreddits(scrapeCity, resp).kind = "threw"
              THEN /\ pc' = "threw"
                   /\ UNCHANGED searchSubreddits
              ELSE /\ pc' = "discovered"
                   /\ searchSubreddits' =
                          GivenSubreddits(discoverSubreddits(scrapeCity, resp).value)
    /\ UNCHANGED <<scrapeCity, scrapeQueries, queryIndex, searchReplies,
                   scrapedPosts>>
    /\ UNCHANGED scorerVars
    /\ UNCHANGED filterVars
    /\ UNCHANGED handlerVars
    /\ UNCHANGED amenityText
    /\ UNCHANGED lookupVars
    /\ UNCHANGED <<postFilterVars, mapIndex>>

DiscoverNext == Discover

SpecDiscover == DiscoverInit /\ [][DiscoverNext]_vars

\* scrapeReddit(queries, city = null, subreddits = null)
ScrapeInit ==
    /\ pc = "subreddits"
    /\ scrapeCity \in {"", "Springfield"}
    /\ forumSearch = NoSearch
    /\ searchSubreddits \in SubredditArguments
    /\ scrapeQueries \in QueryListings
    /\ queryIndex = 1
    /\ searchReplies = <<>>
    /\ scrapedPosts = <<>>
    /\ amenityText = NoText
    /\ IdleLookup
    /\ IdleScorer
    /\ IdleFilter
    /\ IdleHandler

\* if (!searchSubreddits && city) searchSubreddits = await discoverSubreddits(city);
\* if (!searchSubreddits) searchSubreddits = ['AskReddit']
ChooseSubreddits ==
    /\ pc = "subreddits"
    /\ IF ~searchSubreddits.given /\ scrapeCity # ""
       THEN \E resp \in SearchResponses :
                IF discoverSubreddits(scrapeCity, resp).kind = "threw"
                THEN /\ pc' = "threw"
                     /\ UNCHANGED searchSubreddits
                ELSE /\ pc' = "queries"
                     /\ searchSubreddits' =
                            GivenSubreddits(discoverSubreddits(scrapeCity, resp).value)
       ELSE /\ pc' = "queries"
            /\ searchSubreddits' =
                   IF searchSubreddits.given THEN searchSubreddits
                   ELSE GivenSubreddits(<<"AskReddit">>)
    /\ UNCHANGED <<scrapeCity, forumSearch, scrapeQueries, queryIndex,
                   searchReplies, scrapedPosts>>
    /\ UNCHANGED scorerVars
    /\ UNCHANGED filterVars
    /\ UNCHANGED handlerVars
    /\ UNCHANGED amenityText
    /\ UNCHANGED lookupVars
    /\ UNCHANGED <<postFilterVars, mapIndex>>

\* one pass of for (const query of queries) { try {...} catch {...} }
SearchQuery ==
    /\ pc = "queries"
    /\ queryIndex <= Len(scrapeQueries)
    /\ \E reply \in PostReplies :
           /\ searchReplies' = Append(searchReplies, reply)
           /\ scrapedPosts' = AfterQuery(scrapedPosts, reply)
    /\ queryIndex' = queryIndex + 1
    /\ UNCHANGED <<pc, scrapeCity, forumSearch, searchSubreddits, scrapeQueries>>
    /\ UNCHANGED scorerVars
    /\ UNCHANGED filterVars
    /\ UNCHANGED handlerVars
    /\ UNCHANGED amenityText
    /\ UNCHANGED lookupVars
    /\ UNCHANGED <<postFilterVars, mapIndex>>

\* return posts
ReturnPosts ==
    /\ pc = "queries"
    /\ queryIndex > Len(scrapeQueries)
    /\ pc' = "scraped"
    /\ UNCHANGED scraperVars
    /\ UNCHANGED amenityText
    /\ UNCHANGED lookupVars
    /\ UNCHANGED scorerVars
    /\ UNCHANGED filterVars
    /\ UNCHANGED handlerVars
    /\ UNCHANGED <<postFilterVars, mapIndex>>

ScrapeNext ==
    \/ ChooseSubreddits
    \/ SearchQuery
    \/ ReturnPosts

SpecScrape == ScrapeInit /\ [][ScrapeNext]_vars

----------------------------------------------------------------------------
(* Properties of the scorer *)

Ranked == 1..Len(scoredNeighborhoods)

\* C1: every returned aggregate has
\* amenityScore = totalAmenities + 5 * amenityTypeCount
ScoreFormula ==
    pc = "scored" =>
        \A i \in Ranked :
            scoredNeighborhoods[i].amenityScore
                = scoredNeighborhoods[i].totalAmenities
                    + 5 * scoredNeighborhoods[i].amenityTypes

\* a neighborhood with two places of two types scores 12
ScoreFormulaWitness ==
    /\ pc = "scored"
    /\ \E i \in Ranked :
           /\ scoredNeighborhoods[i].totalAmenities = 2
           /\ scoredNeighborhoods[i].amenityTypes = 2
           /\ scoredNeighborhoods[i].amenityScore = 12

RECURSIVE SumOver(_, _)
SumOver(f, S) ==
    IF S = {} THEN 0
    ELSE LET x == CHOOSE y \in S : TRUE IN f[x] + SumOver(f, S \ {x})

\* C2: totalAmenities is the sum of the values of amenityCounts and the
\* amenity type count is the number of its non-zero entries
TotalsMatchCounts ==
    pc = "scored" =>
        \A i \in Ranked :
            LET counts == scoredNeighborhoods[i].amenityCounts.vals
            IN  /\ scoredNeighborhoods[i].totalAmenities
                       = SumOver(counts, DOMAIN counts)
                /\ scoredNeighborhoods[i].amenityTypes
                       = Cardinality({t \in DOMAIN counts : counts[t] # 0})

\* a neighborhood holding two gyms and one park: total 3, two types
TotalsMatchCountsWitness ==
    /\ pc = "scored"
    /\ \E i \in Ranked :
           LET counts == scoredNeighborhoods[i].amenityCounts.vals
           IN  /\ DOMAIN counts = {"gym", "park"}
               /\ counts["gym"] = 2
               /\ counts["park"] = 1
               /\ scoredNeighborhoods[i].totalAmenities = 3

\* position in the run at which a neighborhood was first attributed a place
FirstAttributed(n) ==
    CHOOSE k \in 1..Len(located) :
        /\ located[k].neighborhood = n
        /\ \A m \in 1..(k - 1) : located[m].neighborhood # n

\* C3: the ranking is descending in amenityScore and neighborhoods of equal
\* score appear in the order in which they were first attributed a place
RankedByScoreThenInsertion ==
    pc = "scored" =>
        \A i, j \in Ranked :
            i < j =>
                \/ scoredNeighborhoods[i].amenityScore
                       > scoredNeighborhoods[j].amenityScore
                \/ /\ scoredNeighborhoods[i].amenityScore
                          = scoredNeighborhoods[j].amenityScore
                   /\ FirstAttributed(scoredNeighborhoods[i].neighborhood)
                          < FirstAttributed(scoredNeighborhoods[j].neighborhood)

Orderings(n) ==
    {p \in [1..n -> 1..n] : \A i, j \in 1..n : i # j => p[i] # p[j]}

ScoreSequence(recs) ==
    RankNeighborhoods(AttributeAll(EmptyObject, EmptyObject, recs).scores)

\* per-neighborhood aggregates of a ranking, without their order
Aggregates(ranked) ==
    {[neighborhood   |-> ranked[i].neighborhood,
      amenityCounts  |-> ranked[i].amenityCounts.vals,
      totalAmenities |-> ranked[i].totalAmenities,
      amenityTypes   |-> ranked[i].amenityTypes,
      amenityScore   |-> ranked[i].amenityScore] : i \in 1..Len(ranked)}

\* C4: scoring the located places in any permutation yields the same
\* amenityCounts, totalAmenities, amenityTypeCount and amenityScore for
\* every neighborhood. It fails when a place is resolved to a name that
\* objects inherit: the places of its list that come after it are lost, and
\* which places come after it depends on the order
OrderIndependence ==
    pc = "scored" =>
        \A p \in Orderings(Len(located)) :
            Aggregates(ScoreSequence([i \in 1..Len(located) |-> located[p[i]]]))
                = Aggregates(scoredNeighborhoods)

\* C5: an aggregate that is at least as large in totalAmenities and in
\* amenityTypeCount, and larger in one of them, has the larger amenityScore
ScoreMonotonicity ==
    pc = "scored" =>
        \A i, j \in Ranked :
            (/\ scoredNeighborhoods[i].totalAmenities
                    >= scoredNeighborhoods[j].totalAmenities
             /\ scoredNeighborhoods[i].amenityTypes
                    >= scoredNeighborhoods[j].amenityTypes
             /\ \/ scoredNeighborhoods[i].totalAmenities
                       > scoredNeighborhoods[j].totalAmenities
                \/ scoredNeighborhoods[i].amenityTypes
                       > scoredNeighborhoods[j].amenityTypes)
            => scoredNeighborhoods[i].amenityScore
                   > scoredNeighborhoods[j].amenityScore

\* one neighborhood has more places of the same single type than another
ScoreMonotonicityWitness ==
    /\ pc = "scored"
    /\ \E i, j \in Ranked :
           /\ scoredNeighborhoods[i].totalAmenities
                  > scoredNeighborhoods[j].totalAmenities
           /\ scoredNeighborhoods[i].amenityTypes
                  = scoredNeighborhoods[j].amenityTypes

----------------------------------------------------------------------------
(* Properties of the relevance filter *)

Unparsable == ~JSONParse(StripFences(filterText)).ok

\* C6: an unparsable relevance response makes the filter return the input
\* posts unchanged, without an error
FailOpenFilter ==
    (pc = "filter_done" /\ Unparsable) => filterOutcome = Returned(posts)

\* two posts and a response with prose around its JSON
FailOpenFilterWitness ==
    /\ pc = "filter_done"
    /\ Unparsable
    /\ Len(posts) = 2
    /\ Len(filterText) = 2
    /\ filterOutcome.kind = "returned"

\* post i has a verdict with postIndex = i and isRelevant = true
HasRelevantVerdict(parsed, i) ==
    /\ parsed.type = "array"
    /\ \E k \in 1..Len(parsed.items) :
           /\ parsed.items[k].kind = "object"
           /\ parsed.items[k].postIndex = i
           /\ parsed.items[k].isRelevant

RECURSIVE RelevantSubsequence(_, _, _)
RelevantSubsequence(ps, parsed, i) ==
    IF i > Len(ps) THEN <<>>
    ELSE IF HasRelevantVerdict(parsed, i)
         THEN <<ps[i]>> \o RelevantSubsequence(ps, parsed, i + 1)
         ELSE RelevantSubsequence(ps, parsed, i + 1)

\* C7: whenever the response parses, the filter returns, without an error,
\* the subsequence of the posts that have a verdict with their 1-based
\* index and isRelevant = true
FilterKeepsRelevant ==
    (pc = "filter_done" /\ ~Unparsable) =>
        filterOutcome
            = Returned(RelevantSubsequence(posts,
                                           JSONParse(StripFences(filterText)), 1))

----------------------------------------------------------------------------
(* Properties of the handlers *)

Succeeded == pc = "responded" /\ response.status = 200

\* the handler answered after every collaborator it called had answered
AnsweredWithoutOutage ==
    /\ pc = "responded"
    /\ response.status # 400
    /\ response.body # ModelCallFailed

\* C8: in the amenity-first handler, a request whose amenity extraction
\* yields an empty amenity list, and for which no neighborhoods come from the
\* post text, is answered with exactly one recommendation, the synthetic
\* Downtown entry, and not with an empty list or an error
NeverEmptyResult ==
    (handler = "amenityFirst" /\ AnsweredWithoutOutage /\ amenitiesNeeded = <<>>)
        => /\ response.status = 200
           /\ Len(recommendations) = 1
           /\ recommendations[1].neighborhood = "Downtown"

\* C9 as stated: every successful response of any of the three handlers
\* carries at most 5 recommendations
RecommendationsAtMostFive ==
    Succeeded => Len(recommendations) <= 5

\* C9 as amended: every successful response of the amenity-first handler
\* carries at most 5 recommendations, its ranking cut to the first five; the
\* fallback response of the simpler handlers carries exactly one
RecommendationsCapped ==
    /\ (Succeeded /\ handler = "amenityFirst")
           => /\ Len(recommendations) <= 5
              /\ Len(recommendations) <= Len(scoredNeighborhoods)
              /\ \A i \in 1..Len(recommendations) :
                     recommendations[i].neighborhood
                         = scoredNeighborhoods[i].neighborhood
    /\ (Succeeded /\ response.body = "fallback")
           => Len(recommendations) = 1

\* the amenity-first handler ranked six neighborhoods and answered with five
RecommendationsCappedWitness ==
    /\ Succeeded
    /\ handler = "amenityFirst"
    /\ Len(scoredNeighborhoods) > 5
    /\ Len(recommendations) = 5

DisplayCap == IF handler = "amenityFirst" THEN 10 ELSE 5

\* C10: in every successful response, every sequence
\* mapData.neighborhoodAmenities[n][t] has at most 5 places and every display
\* sequence mapData.amenities[t] has at most the cap of its handler (10 in the
\* amenity-first handler, 5 in the simpler ones), with or without brand names
DisplayCapsHold ==
    Succeeded =>
        /\ \A t \in DOMAIN mapData.amenities.vals :
               Len(Get(mapData.amenities, t)) <= DisplayCap
        /\ (handler = "amenityFirst" /\ response.body = "recommendations") =>
               \A n \in DOMAIN mapData.neighborhoodAmenities.vals :
                   \A t \in DOMAIN Get(mapData.neighborhoodAmenities, n).vals :
                       Len(Get(Get(mapData.neighborhoodAmenities, n), t)) <= 5

\* a brand-filtered lookup that matched more than ten places shows ten, and a
\* neighborhood holding six gyms shows five
DisplayCapsHoldWitness ==
    /\ Succeeded
    /\ handler = "amenityFirst"
    /\ Len(BrandNames(specificBrands, "gym")) > 0
    /\ Has(mapData.amenities, "gym")
    /\ Len(Get(mapData.amenities, "gym")) = 10
    /\ Has(neighborhoodAmenities, "Downtown")
    /\ Has(Get(neighborhoodAmenities, "Downtown"), "gym")
    /\ Len(Get(Get(neighborhoodAmenities, "Downtown"), "gym")) > 5
    /\ Len(Get(Get(mapData.neighborhoodAmenities, "Downtown"), "gym")) = 5

\* C11: in every successful amenity-first response each returned neighborhood
\* has a concerns value that is a list holding at least one concern string,
\* whatever the concerns call returned
ConcernsAlwaysListed ==
    (Succeeded /\ handler = "amenityFirst") =>
        \A i \in 1..Len(recommendations) :
            /\ recommendations[i].concerns.kind = "list"
            /\ Len(recommendations[i].concerns.items) >= 1

\* the relevance predicate as a property of a record: a record without a
\* description has no description that contains a word
SatisfiesPredicate(subreddit, cityArg) ==
    /\ subreddit.subscribers > 100
    /\ ~subreddit.over18
    /\ \/ includes(toLowerCase(subreddit.display_name), toLowerCase(cityArg))
       \/ /\ subreddit.public_description # NULL
          /\ \/ includes(toLowerCase(subreddit.public_description), "neighborhood")
             \/ includes(toLowerCase(subreddit.public_description), "live")
             \/ includes(toLowerCase(subreddit.public_description), "ask")

\* C12: when the subreddit search succeeds and no subreddit satisfies the
\* relevance predicate, discoverSubreddits returns the four names built
\* from the city, in order. It fails for a record without a description
\* whose name does not hold the city: reading its description throws and
\* the catch returns two names
FourNameFallback ==
    (pc = "discovered" /\ forumSearch.kind \in {"nodata", "listing"}
        /\ \A i \in 1..Len(forumSearch.children) :
               ~SatisfiesPredicate(forumSearch.children[i], scrapeCity)) =>
        searchSubreddits.names =
            <<toLowerCase(scrapeCity), toLowerCase(scrapeCity) \o "housing",
              "Ask" \o scrapeCity, toLowerCase(scrapeCity) \o "neighborhoods">>

\* C13: for a non-empty string city discoverSubreddits never throws, and
\* when the search call fails, or the processing of its result does, the
\* result is exactly the lower-cased city and 'Ask' + city
SearchOrProcessingFails ==
    \/ forumSearch.kind = "failed"
    \/ /\ forumSearch.kind = "listing"
       /\ \E i \in 1..Len(forumSearch.children) :
              IsRelevant(forumSearch.children[i], scrapeCity) = "TypeError"

DiscoveryNeverThrows ==
    /\ pc # "threw"
    /\ (pc = "discovered" /\ SearchOrProcessingFails) =>
           searchSubreddits.names =
               <<toLowerCase(scrapeCity), "Ask" \o scrapeCity>>

\* a relevant subreddit was already collected when the null description of
\* the next one made the loop throw
DiscoveryNeverThrowsWitness ==
    /\ pc = "discovered"
    /\ scrapeCity = "NYC"
    /\ forumSearch.kind = "listing"
    /\ Len(forumSearch.children) = 2
    /\ IsRelevant(forumSearch.children[1], scrapeCity) = "true"
    /\ IsRelevant(forumSearch.children[2], scrapeCity) = "TypeError"
    /\ searchSubreddits.names = <<"nyc", "AskNYC">>

\* the reply text is not JSON, or is JSON without a list under "amenities"
ExtractionFails ==
    LET stripped == StripFences(amenityText.text)
    IN  \/ Len(stripped) # 1
        \/ stripped[1].tok # "json"
        \/ stripped[1].type # "amenities"

\* C14: when the amenity-extraction reply fails to parse, the amenity list
\* is exactly gym, grocery_or_supermarket, no type has brand names, and the
\* request goes on to scoring with no response sent
ExtractionDefaults ==
    /\ (pc = "score" /\ ExtractionFails) =>
           /\ amenitiesNeeded = <<"gym", "grocery_or_supermarket">>
           /\ specificBrands = EmptyObject
           /\ response = NotSent
    /\ amenityText.received => pc \in {"extract_parse", "score"}

\* a reply with prose before its JSON
ExtractionDefaultsWitness ==
    /\ pc = "score"
    /\ amenityText.received
    /\ Len(amenityText.text) = 2
    /\ amenityText.text[2].type = "amenities"
    /\ Len(amenityText.text[2].items) > 0
    /\ amenitiesNeeded = <<"gym", "grocery_or_supermarket">>
    /\ specificBrands = EmptyObject

\* C15: no parse failure of a model reply is answered with a 500: every
\* call site that parses model output catches the failure
ParseFailuresCaught ==
    ~(pc = "responded" /\ response = Sent(500, SyntaxErrorMessage))

\* C16: a transport failure of a single collaborator call does not by
\* itself end the request in a 500
TransportFailuresCaught ==
    ~(pc = "responded" /\ response = Sent(500, ModelCallFailed))

\* C17: a request without a city or without preferences is answered 400 at
\* once: the handler is never at a step that calls a collaborator, and
\* nothing a collaborator gives is in its state
RejectedBeforeAnyCall ==
    (request.city = "" \/ request.preferences = "") =>
        /\ pc \in {"request", "responded"}
        /\ pc = "responded" => response = Sent(400, RequiredMessage)
        /\ provider = NoProvider
        /\ amenitiesNeeded = <<>>
        /\ redditQueries = [iterable |-> TRUE, queries |-> <<>>]
        /\ redditPosts = <<>>
        /\ recommendations = <<>>

RejectedBeforeAnyCallWitness ==
    /\ pc = "responded"
    /\ request.city = "Springfield"
    /\ request.preferences = ""
    /\ response = Sent(400, RequiredMessage)
    /\ provider = NoProvider

\* C18: an amenity-first request that has both fields, and all of whose
\* model calls were answered, ends with the recommendation response, never
\* with an error
ValidRequestsAnswered ==
    (pc = "responded" /\ handler = "amenityFirst"
        /\ request.city # "" /\ request.preferences # ""
        /\ response.body # ModelCallFailed) =>
        response.status = 200

\* C20: when the scoring reply parsed, every returned neighborhood that the
\* reply scored carries that score as matchScore
MatchScoreCarried ==
    (Succeeded /\ handler = "amenityFirst") =>
        \A i \in 1..Len(recommendations) :
            Has(qualitativeScores, recommendations[i].neighborhood) =>
                /\ "matchScore" \in DOMAIN recommendations[i]
                /\ recommendations[i].matchScore =
                       Get(qualitativeScores, recommendations[i].neighborhood)

\* the posts of one answered search that have both a title and a body, as
\* the texts returned for them, in the provider's order
KeptOfListing(children) ==
    LET HasBoth(post) == post.title # "" /\ post.selftext # ""
        kept == SelectSeq(children, HasBoth)
    IN  [i \in 1..Len(kept) |->
            "Title: " \o kept[i].title \o "\nContent: " \o kept[i].selftext
                \o "\nSubreddit: r/" \o kept[i].subreddit]

RECURSIVE ConcatenatedKept(_)
ConcatenatedKept(replies) ==
    IF replies = <<>> THEN <<>>
    ELSE (IF Head(replies).kind = "listing"
          THEN KeptOfListing(Head(replies).children) ELSE <<>>)
         \o ConcatenatedKept(Tail(replies))

\* C19: scrapeReddit skips a query whose search fails and goes on: its
\* result is the concatenation, in query order, of the kept posts of the
\* answered searches, each in the provider's order, and every query is tried
FailedQueriesSkipped ==
    /\ pc # "threw"
    /\ pc \in {"queries", "scraped"} =>
           scrapedPosts = ConcatenatedKept(searchReplies)
    /\ pc = "scraped" => Len(searchReplies) = Len(scrapeQueries)

\* the first search gives two posts that are kept, the second search fails
FailedQueriesSkippedWitness ==
    /\ pc = "scraped"
    /\ Len(searchReplies) = 2
    /\ searchReplies[1].kind = "listing"
    /\ Len(searchReplies[1].children) = 2
    /\ searchReplies[2].kind = "failed"
    /\ Len(scrapedPosts) = 2
    /\ scrapedPosts[1] # scrapedPosts[2]

MatchingNames(children, cityArg) ==
    LET Matches(subreddit) == SatisfiesPredicate(subreddit, cityArg)
        matching == SelectSeq(children, Matches)
    IN  [i \in 1..Len(matching) |-> matching[i].display_name]

\* C21: when the search succeeds and some record satisfies the predicate,
\* discoverSubreddits returns exactly the matching records' names in the
\* provider's order; a record that fails the predicate removes none of them
MatchingForumsReturned ==
    (pc = "discovered" /\ forumSearch.kind = "listing"
        /\ Len(MatchingNames(forumSearch.children, scrapeCity)) > 0) =>
        searchSubreddits.names = MatchingNames(forumSearch.children, scrapeCity)

\* the pages that were answered, one after the other
RECURSIVE AnsweredResults(_)
AnsweredResults(calls) ==
    IF calls = <<>> THEN <<>>
    ELSE (IF Head(calls).reply.kind = "page" THEN Head(calls).reply.results
          ELSE <<>>)
         \o AnsweredResults(Tail(calls))

\* C22: without brand names getAllAmenityCoordinates sends at most 3
\* requests; the first carries no token and each later one the token of the
\* page before it; no request follows a page without a token; the result is
\* the fetched pages one after the other
PagingBounded ==
    (lookupNames = <<>>) =>
        /\ Len(nearbyCalls) <= 3
        /\ \A k \in 1..Len(nearbyCalls) :
               /\ nearbyCalls[k].pagetoken =
                      IF k = 1 THEN NULL ELSE nearbyCalls[k - 1].reply.token
               /\ k > 1 => nearbyCalls[k - 1].reply.token # NULL
        /\ (pc = "lookup_done" /\ Len(nearbyCalls) > 0) =>
               lookupResult = Returned(MapPlaces(AnsweredResults(nearbyCalls), "gym"))

\* three pages were fetched, the third one offering a fourth
PagingBoundedWitness ==
    /\ pc = "lookup_done"
    /\ lookupNames = <<>>
    /\ Len(nearbyCalls) = 3
    /\ nearbyCalls[3].reply.kind = "page"
    /\ nearbyCalls[3].reply.token # NULL
    /\ nearbyCalls[2].pagetoken = "tokenA"
    /\ nearbyCalls[3].pagetoken = "tokenB"
    /\ Len(lookupResult.value) = 3 * MaxPagePlaces

\* C23: in the amenity-first response no place listed for a type that was
\* looked up by brand names carries a sentinel word in its name
SentinelPlacesExcluded ==
    (Succeeded /\ handler = "amenityFirst"
        /\ Has(mapData.amenities, "gym")
        /\ Len(BrandNames(specificBrands, "gym")) > 0) =>
        \A i \in 1..Len(Get(mapData.amenities, "gym")) :
            /\ ~includes(toLowerCase(Get(mapData.amenities, "gym")[i].name), "google")
            /\ ~includes(toLowerCase(Get(mapData.amenities, "gym")[i].name), "test")

SomeRequestFailed ==
    \E k \in 1..Len(nearbyCalls) : nearbyCalls[k].reply.kind = "failed"

\* C24 as stated: a lookup during which a request to the places provider
\* failed returns the empty sequence
FailedLookupIsEmpty ==
    (pc = "lookup_done" /\ SomeRequestFailed) => lookupResult = Returned(<<>>)

\* the places of the answered brand queries that pass the brand filter
RECURSIVE AnsweredBrandResults(_)
AnsweredBrandResults(calls) ==
    IF calls = <<>> THEN <<>>
    ELSE (IF Head(calls).reply.kind = "page"
          THEN FilterByBrand(Head(calls).keyword, Head(calls).reply.results)
          ELSE <<>>)
         \o AnsweredBrandResults(Tail(calls))

\* the records the attribution loop makes of the places the lookups gave
ReturnedRecords ==
    Flatten([i \in 1..Len(lookups) |->
        [k \in 1..Len(lookups[i].places) |->
            [type |-> lookups[i].type,
             list |-> i,
             place |-> lookups[i].places[k],
             neighborhood |->
                 getNeighborhoodFromCoordinates(provider, lookups[i].places[k])]]])

\* C24 amended: a failed brand query loses only its own places and the
\* remaining brands are still queried; a failed page ends the paging and the
\* pages before it are kept; whatever failed, every requested type is
\* looked up in turn and the ranking is the one the attribution loop makes
\* of all the places the lookups returned
FailureLosesOnlyItsRequest ==
    /\ (pc = "lookup_done" /\ SomeRequestFailed /\ Len(lookupNames) > 0) =>
           /\ Len(nearbyCalls) = Len(lookupNames)
           /\ lookupResult =
                  Returned(MapPlaces(AnsweredBrandResults(nearbyCalls), LookupType))
    /\ (pc = "lookup_done" /\ SomeRequestFailed /\ Len(lookupNames) = 0) =>
           /\ nearbyCalls[Len(nearbyCalls)].reply.kind = "failed"
           /\ \A k \in 1..(Len(nearbyCalls) - 1) : nearbyCalls[k].reply.kind = "page"
           /\ lookupResult =
                  Returned(MapPlaces(AnsweredResults(nearbyCalls), LookupType))
    /\ pc = "scored" =>
           /\ [i \in 1..Len(lookups) |-> lookups[i].type] = amenitiesNeeded
           /\ scoredNeighborhoods = ScoreSequence(ReturnedRecords)

\* the gym lookup kept the place of its first brand when the query for the
\* second brand failed, and the parks looked up after it were scored
FailureLosesOnlyItsRequestWitness ==
    /\ pc = "scored"
    /\ amenitiesNeeded = <<"gym", "park">>
    /\ lookups[1].failed
    /\ Len(lookups[1].places) = 1
    /\ lookups[1].places[1].name = "Yoga Loft"
    /\ ~lookups[2].failed
    /\ Len(lookups[2].places) = 2
    /\ \E i \in 1..Len(scoredNeighborhoods) :
           Has(scoredNeighborhoods[i].amenityCounts, "park")

ComponentsTyped(wanted) ==
    {i \in 1..Len(geocodeReply.address_components) :
        wanted \in geocodeReply.address_components[i].types}

FirstOf(S) == CHOOSE i \in S : \A j \in S : i <= j

\* p is what stands before the first comma of the address
IsFirstSegment(p, address) ==
    /\ ~includes(p, ",")
    /\ \/ p = address
       \/ /\ Len(p) < Len(address)
          /\ SubSeq(address, 1, Len(p) + 1) = p \o ","

\* C25: getNeighborhoodFromCoordinates returns the first component typed
\* neighborhood, else the first typed locality, else the first segment of
\* the formatted address; null without results or on failure; never throws
ResolverPriority ==
    pc = "resolved" =>
        /\ resolved.kind = "returned"
        /\ IF geocodeReply.kind # "result" THEN resolved.value = NULL
           ELSE IF ComponentsTyped("neighborhood") # {}
           THEN resolved.value =
                    geocodeReply.address_components[
                        FirstOf(ComponentsTyped("neighborhood"))].long_name
           ELSE IF ComponentsTyped("locality") # {}
           THEN resolved.value =
                    geocodeReply.address_components[
                        FirstOf(ComponentsTyped("locality"))].long_name
           ELSE IsFirstSegment(resolved.value, geocodeReply.formatted_address)

\* a locality listed before two neighborhoods: the first neighborhood wins
ResolverPriorityWitness ==
    /\ pc = "resolved"
    /\ geocodeReply.kind = "result"
    /\ Len(geocodeReply.address_components) = 3
    /\ geocodeReply.address_components[1].long_name = "Springfield"
    /\ geocodeReply.address_components[2].long_name = "Sunset"
    /\ geocodeReply.address_components[3].long_name = "Mission"
    /\ resolved = Returned("Sunset")

\* no typed component: the address up to its first comma
ResolverSegmentWitness ==
    /\ pc = "resolved"
    /\ geocodeReply.kind = "result"
    /\ geocodeReply.address_components = <<>>
    /\ geocodeReply.formatted_address = "12 Main St, Springfield"
    /\ resolved = Returned("12 Main St")

----------------------------------------------------------------------------
(* Conservation of places in the scorer *)

\* sum of totalAmenities over the returned aggregates
SumOfTotals ==
    SumOver([i \in Ranked |-> scoredNeighborhoods[i].totalAmenities], Ranked)

\* every list of attributed places is as long as the count beside it
ListsMatchCounts ==
    \A i \in Ranked :
        LET n == scoredNeighborhoods[i].neighborhood
            counts == scoredNeighborhoods[i].amenityCounts
        IN  /\ Has(neighborhoodAmenities, n)
            /\ DOMAIN Get(neighborhoodAmenities, n).vals = DOMAIN counts.vals
            /\ \A t \in DOMAIN counts.vals :
                   Len(Get(Get(neighborhoodAmenities, n), t)) = Get(counts, t)

\* C26: once the scorer has returned, the sum of totalAmenities over all
\* neighborhoods is the number of located places whose resolved
\* neighborhood is not null, and every list of attributed places is as long
\* as its count. It fails for a place resolved to a name that objects
\* inherit, whose attribution throws, and for one resolved to ''
NonNullPlacesCounted ==
    pc = "scored" =>
        /\ SumOfTotals
               = Cardinality({k \in 1..Len(located) :
                                  located[k].neighborhood # NULL})
        /\ ListsMatchCounts

----------------------------------------------------------------------------
(* The concern fallback *)

InList(items, str) == \E k \in 1..Len(items) : items[k] = str

LimitedAmenities == "Limited number of requested amenities nearby"

MissingTypes == "Not all requested amenity types available in this neighborhood"

LimitedFeedback == "Limited community feedback available"

NeutralPlaceholder == "Research more on community forums and local resources"

\* the list holds exactly the fallback concerns the rules call for
FollowsFallbackRules(items, n) ==
    /\ InList(items, LimitedAmenities) <=> n.totalAmenities < 5
    /\ InList(items, MissingTypes) <=> n.amenityTypes < Len(amenitiesNeeded)
    /\ InList(items, LimitedFeedback) <=> Len(redditPosts) = 0
    /\ InList(items, NeutralPlaceholder)
           <=> ~(\/ n.totalAmenities < 5
                 \/ n.amenityTypes < Len(amenitiesNeeded)
                 \/ Len(redditPosts) = 0)
    /\ \A k \in 1..Len(items) :
           items[k] \in {LimitedAmenities, MissingTypes, LimitedFeedback,
                         NeutralPlaceholder}

\* C27: in a successful amenity-first response the concerns of each returned
\* neighborhood are either the non-empty value the concerns reply gave for
\* it, or, the reply having given none, the fallback concerns: limited
\* amenities iff totalAmenities < 5, missing types iff the type count is
\* below the number of requested types, limited feedback iff no post was
\* scraped, and the neutral placeholder iff none of the three applies
FallbackConcernsEmitted ==
    (Succeeded /\ handler = "amenityFirst") =>
        \A i \in 1..Len(recommendations) :
            LET c == recommendations[i].concerns
            IN  \/ /\ c.kind = "list"
                   /\ FollowsFallbackRules(c.items, scoredNeighborhoods[i])
                \/ /\ c \in ConcernValues
                   /\ ~LacksConcerns(c)

----------------------------------------------------------------------------
(* Properties of the server's POST handlers *)

\* C28: in the handlers that filter posts, as long as the retrieval has
\* returned no post the relevance filter has not been called and the
\* filtered sequence is empty; and the step that follows an empty retrieval
\* goes on without a call, so without the failure a call can end in
EmptyRetrievalSkipsFilter ==
    /\ [](redditPosts = <<>> => (filterCalls = 0 /\ filteredPosts = <<>>))
    /\ [][(pc = "filter" /\ redditPosts = <<>>)
            => (/\ pc' = AfterFilter
                /\ filterCalls' = 0
                /\ filteredPosts' = <<>>
                /\ response' = NotSent)]_vars

\* the debug handler has reported after a retrieval that returned nothing
EmptyRetrievalSkipsFilterWitness ==
    /\ handler = "debug"
    /\ pc = "responded"
    /\ response = Sent(200, "debug")
    /\ redditQueries.queries # <<>>
    /\ redditPosts = <<>>
    /\ filterCalls = 0

\* the positions of a handler, the last one first; "locate" and "attribute"
\* are the two positions of one loop
Stages ==
    <<"responded", "report", "display", "boundaries", "types", "map",
      "analyze", "concerns", "scoring", "filter", "scrape", "forums", "parse",
      "qualitative", "scored", "locate", "score", "extract", "test_scrape",
      "request", "test_request">>

StageOf(position) ==
    LET at == IF position = "attribute" THEN "locate" ELSE position
    IN  CHOOSE k \in 1..Len(Stages) : Stages[k] = at

\* more than the places one lookup can return
LoopSpan == PageCap * MaxResults + 2

\* passes the loop of the current position has still to make
LoopLeft ==
    CASE pc = "locate" ->
             (Len(amenitiesNeeded) + 1 - typeIndex) * LoopSpan + 1
      [] pc = "attribute" ->
             (Len(amenitiesNeeded) - typeIndex) * LoopSpan + Len(amenities) + 2
      [] pc = "display" -> Len(amenitiesNeeded) - mapIndex
      [] pc = "boundaries" -> Len(recommendations) - mapIndex
      [] OTHER -> 0

\* a bound on the awaited calls a handler has still to make
StepsLeft == StageOf(pc) * (4 * LoopSpan) + LoopLeft

\* the handler can take a step once the call it awaits returns or fails
HasNextStep ==
    /\ pc = "request" => ENABLED ValidateRequest
    /\ pc = "extract" => ENABLED ExtractAmenities
    /\ pc = "score" => ENABLED (ScoreNeighborhoods \/ NoAmenitiesBranch)
    /\ pc = "locate" => ENABLED (LocateAmenities \/ ReturnScored)
    /\ pc = "attribute" => ENABLED (ResolveAndAttribute \/ NextAmenityType)
    /\ pc = "scored" => ENABLED NeighborhoodsScored
    /\ pc = "qualitative" => ENABLED QualitativeQueries
    /\ pc = "parse" => ENABLED ParsePreferencesCall
    /\ pc = "forums" => ENABLED DiscoverSubredditsCall
    /\ pc = "scrape" => ENABLED ScrapeReddit
    /\ pc = "filter" => ENABLED FilterPosts
    /\ pc = "scoring" => ENABLED QualitativeScoring
    /\ pc = "concerns" => ENABLED IdentifyConcerns
    /\ pc = "analyze" => ENABLED AnalyzeNeighborhoods
    /\ pc = "map" => ENABLED GetCityCoordinates
    /\ pc = "types" => ENABLED ExtractAmenityTypes
    /\ pc = "boundaries" => ENABLED GetNeighborhoodBoundaries
    /\ pc = "display" => ENABLED DisplayLookup
    /\ pc = "report" => ENABLED DebugReport
    /\ pc = "test_request" => ENABLED ValidateScrapeRequest
    /\ pc = "test_scrape" => ENABLED TestScrape

\* C29: every request to a POST handler is answered exactly once. No
\* response is sent twice, and the handler is done exactly when it has
\* sent one; as long as it has sent none the handler has a step to take,
\* whichever way the awaited call ends; and every step brings it nearer to
\* its end, so that a handler whose calls all return or fail reaches the
\* state in which it has answered
AnsweredExactlyOnce ==
    /\ [](/\ response.sends <= 1
          /\ (pc = "responded") <=> (response.sends = 1)
          /\ (response = NotSent) <=> (response.sends = 0))
    /\ [](/\ pc \in {Stages[k] : k \in 1..Len(Stages)} \cup {"attribute"}
          /\ pc # "responded" => HasNextStep)
    /\ [][StepsLeft' < StepsLeft]_vars
    /\ [](StepsLeft \in Nat /\ (StepsLeft = StageOf("responded") * (4 * LoopSpan)
                                    <=> pc = "responded"))

\* the amenity-first handler has answered 500 from its catch block after the
\* scoring had found neighborhoods
AnsweredExactlyOnceWitness ==
    /\ handler = "amenityFirst"
    /\ pc = "responded"
    /\ response.status = 500
    /\ response.sends = 1
    /\ Len(scoredNeighborhoods) > 0

\* C30: in an amenity-first request no place is attributed twice to a
\* neighborhood under one type: the places listed for a neighborhood and a
\* type, each of which added 1 to the count, are pairwise distinct
EachPlaceCountedOnce ==
    handler = "amenityFirst" =>
        \A n \in DOMAIN neighborhoodAmenities.vals :
            \A t \in DOMAIN Get(neighborhoodAmenities, n).vals :
                LET places == Get(Get(neighborhoodAmenities, n), t)
                IN  \A i, j \in 1..Len(places) :
                        i # j => places[i].loc # places[j].loc

=============================================================================
